---------------------------- MODULE Spec2Model ----------------------------
(***************************************************************************)
(* A model of the CHECKmate grading and plagiarism back end                *)
(* (python_ai_backend): the rubric grader of enhanced_services/ai_grading, *)
(* the plagiarism check of enhanced_services/plagiarism with the store of  *)
(* database.py, the grade-submission endpoints of main.py and the cached   *)
(* SimpleAISystem of simple_ai_system.py.                                  *)
(*                                                                         *)
(* Texts are sequences of one-character strings, and the regular           *)
(* expressions of the source are written out as operators on them.         *)
(* Numbers the source holds as floats are held as scaled integers; the     *)
(* unit is stated where a quantity is defined.                             *)
(***************************************************************************)
EXTENDS Integers, Sequences, FiniteSets, TLC

(***************************************************************************)
(* Characters and Python's str / re primitives.                            *)
(***************************************************************************)
LowerChars ==
    {"a","b","c","d","e","f","g","h","i","j","k","l","m",
     "n","o","p","q","r","s","t","u","v","w","x","y","z"}
UpperChars == {"A","C","E","G","I","S","T"}
DigitChars == {"0","1","2","3","4","5","6","7","8","9"}
TermChars  == {".","!","?"}
SpaceChars == {" ","\n","\t"}

\* \w of the re module
IsW(ch) == ch \in LowerChars \cup UpperChars \cup DigitChars \cup {"_"}
\* \s of the re module, and what str.split() and str.strip() take as blank
IsSpace(ch) == ch \in SpaceChars
\* the class [.!?]
IsTerm(ch) == ch \in TermChars

\* str.lower(), one character
LowerCh(ch) ==
    CASE ch = "A" -> "a" [] ch = "C" -> "c" [] ch = "E" -> "e"
      [] ch = "G" -> "g" [] ch = "I" -> "i" [] ch = "S" -> "s"
      [] ch = "T" -> "t" [] OTHER -> ch
\* str.lower()
StrLower(s) == [i \in 1..Len(s) |-> LowerCh(s[i])]
\* str.isupper() of one character
IsUpperCh(ch) == ch \in UpperChars

Min2(a, b) == IF a <= b THEN a ELSE b
Max2(a, b) == IF a >= b THEN a ELSE b
SetMin(S) == CHOOSE m \in S : \A o \in S : m <= o
SetMax(S) == CHOOSE m \in S : \A o \in S : m >= o

\* round(n / d) of Python for d > 0: to the nearest whole number, a tie
\* to the even one
RoundDiv(n, d) ==
    LET q == n \div d
        r == n - q * d
    IN  IF 2 * r < d THEN q
        ELSE IF 2 * r > d THEN q + 1
        ELSE q + (q % 2)

RECURSIVE SumSeq(_)
SumSeq(q) == IF q = <<>> THEN 0 ELSE Head(q) + SumSeq(Tail(q))

(***************************************************************************)
(* The arithmetic of Python's float.  A whole number of any size is the    *)
(* tuple of its digits to the base 2^15, the lowest first and the highest  *)
(* other than 0; <<>> is 0.                                                *)
(***************************************************************************)
Base == 2^15
\* the powers of two under and at the base
Pow2 == [j \in 0..15 |-> 2^j]

\* the limbs of n, lowest first: n is under Base^3
Big(n) ==
    IF n = 0 THEN <<>>
    ELSE IF n < Base THEN <<n>>
    ELSE IF n \div Base < Base THEN <<n % Base, n \div Base>>
    ELSE <<n % Base, (n \div Base) % Base, n \div (Base * Base)>>

\* the number of at most two limbs and a third under 2
BigToInt(a) ==
    (IF Len(a) >= 1 THEN a[1] ELSE 0) + (IF Len(a) >= 2 THEN a[2] * Base ELSE 0)
    + (IF Len(a) >= 3 THEN a[3] * Base * Base ELSE 0)

\* the tuple t without its leading zero limbs
Trimmed(t) ==
    IF \A i \in 1..Len(t) : t[i] = 0 THEN <<>>
    ELSE SubSeq(t, 1, SetMax({i \in 1..Len(t) : t[i] # 0}))

\* a without its leading zero limbs, as a tuple
BigNorm(a) == Trimmed(a \o <<>>)

\* the order of two numbers of as many limbs, from the limbs they differ in
LimbCmp(a, b, D) ==
    IF D = {} THEN 0 ELSE IF a[SetMax(D)] < b[SetMax(D)] THEN -1 ELSE 1

BigCmp(a, b) ==
    IF Len(a) # Len(b) THEN (IF Len(a) < Len(b) THEN -1 ELSE 1)
    ELSE LimbCmp(a, b, {i \in 1..Len(a) : a[i] # b[i]})

\* the sums of the limbs of a and b, n limbs and a 0 above them
LimbSums(a, b, n) ==
    [i \in 1..n |-> (IF i <= Len(a) THEN a[i] ELSE 0)
                    + (IF i <= Len(b) THEN b[i] ELSE 0)] \o <<0>>

\* the carry into limb i: set where a run of limb sums of Base - 1 below i
\* ends in a sum of Base or more
CarryInto(S, i) ==
    IF \E j \in 1..(i - 1) :
          /\ S[j] >= Base
          /\ \A k \in (j + 1)..(i - 1) : S[k] = Base - 1
    THEN 1 ELSE 0

Carried(S) == BigNorm([i \in 1..Len(S) |-> (S[i] + CarryInto(S, i)) % Base])

\* a + b
BigAdd(a, b) == Carried(LimbSums(a, b, Max2(Len(a), Len(b))))

\* the differences of the limbs of a and b
LimbDiffs(a, b) ==
    [i \in 1..Len(a) |-> a[i] - (IF i <= Len(b) THEN b[i] ELSE 0)] \o <<>>

\* the borrow from limb i: set where a run of limb differences of 0 below i
\* ends in a difference under 0
BorrowFrom(S, i) ==
    IF \E j \in 1..(i - 1) :
          /\ S[j] < 0
          /\ \A k \in (j + 1)..(i - 1) : S[k] = 0
    THEN 1 ELSE 0

Borrowed(S) ==
    BigNorm([i \in 1..Len(S) |-> (S[i] - BorrowFrom(S, i) + Base) % Base])

\* a - b for a >= b
BigSub(a, b) == Borrowed(LimbDiffs(a, b))

\* a * s for s under Base: the low and the high halves of the limb products
BigMulSmall(a, s) ==
    IF s = 0 \/ a = <<>> THEN <<>>
    ELSE BigAdd([i \in 1..Len(a) |-> (a[i] * s) % Base],
                <<0>> \o [i \in 1..Len(a) |-> (a[i] * s) \div Base])

\* a * 2^k
BigShl(a, k) ==
    IF a = <<>> THEN <<>>
    ELSE [i \in 1..(k \div 15) |-> 0] \o BigMulSmall(a, Pow2[k % 15])

\* the limbs t moved down by r binary digits, r under 15
ShiftedDown(t, r) ==
    BigNorm([i \in 1..Len(t) |->
                (t[i] \div Pow2[r])
                + ((IF i < Len(t) THEN t[i + 1] ELSE 0) % Pow2[r])
                  * Pow2[15 - r]])

\* a \div 2^k
BigShr(a, k) == ShiftedDown(SubSeq(a, k \div 15 + 1, Len(a)), k % 15)

\* a % 2^k
BigLow(a, k) ==
    BigNorm([i \in 1..Min2(Len(a), k \div 15 + 1) |->
                IF i <= k \div 15 THEN a[i] ELSE a[i] % Pow2[k % 15]])

\* the number of binary digits of a
BigBits(a) ==
    IF a = <<>> THEN 0
    ELSE 15 * (Len(a) - 1) + Cardinality({j \in 0..14 : Pow2[j] <= a[Len(a)]})

\* a * b, a limb of b at a time from the k-th on
RECURSIVE BigMulFrom(_, _, _, _)
RECURSIVE BigMulOn(_, _, _, _)
BigMulFrom(a, b, k, sum) ==
    IF k > Len(b) THEN sum
    ELSE BigMulOn(a, b, k + 1,
                  BigAdd(sum, [i \in 1..(k - 1) |-> 0] \o BigMulSmall(a, b[k])))

BigMulOn(a, b, k, next) ==
    IF next = <<>> THEN BigMulFrom(a, b, k, <<>>) ELSE BigMulFrom(a, b, k, next)

BigMul(a, b) == IF a = <<>> \/ b = <<>> THEN <<>> ELSE BigMulFrom(a, b, 1, <<>>)

\* the estimate of the next digit of a quotient from the top limbs of what
\* is left, cur, and the top limb of the divisor b of n limbs
DivEstimate(cur, b, n) ==
    Min2(((IF n + 1 <= Len(cur) THEN cur[n + 1] ELSE 0) * Base
          + (IF n <= Len(cur) THEN cur[n] ELSE 0)) \div b[n],
         Base - 1)

DivFits(b, d, cur) == BigCmp(BigMulSmall(b, d), cur) <= 0

\* the digit: at most two under its estimate
DivDigit(b, cur, est) ==
    IF Len(b) = 1 \/ DivFits(b, est, cur) THEN est
    ELSE IF DivFits(b, est - 1, cur) THEN est - 1
    ELSE est - 2

\* Long division by b, whose top limb is Base / 2 or more: the limbs of a
\* from the k-th down are brought in one at a time to the remainder r
RECURSIVE BigDivDown(_, _, _, _, _)
RECURSIVE BigDivDigit(_, _, _, _, _)
RECURSIVE BigDivRest(_, _, _, _, _, _)
RECURSIVE BigDivOn(_, _, _, _, _)
BigDivDown(a, b, k, q, r) ==
    IF k = 0 THEN [q |-> BigNorm(q), r |-> r]
    ELSE BigDivDigit(a, b, k, q, BigNorm(<<a[k]>> \o r))

BigDivDigit(a, b, k, q, cur) ==
    BigDivRest(a, b, k, q, cur, DivDigit(b, cur, DivEstimate(cur, b, Len(b))))

BigDivRest(a, b, k, q, cur, digit) ==
    BigDivOn(a, b, k - 1, <<digit>> \o q, BigSub(cur, BigMulSmall(b, digit)))

BigDivOn(a, b, k, q, rest) ==
    IF rest = <<>> THEN BigDivDown(a, b, k, q, <<>>)
    ELSE BigDivDown(a, b, k, q, rest)

\* the quotient and the remainder of the division of sa by sb, both scaled
\* by 2^sh
Unscaled(dm, sh) == [q |-> dm.q, r |-> BigShr(dm.r, sh)]

BigDivScaled(sa, sb, sh) ==
    IF sa = <<>> THEN [q |-> <<>>, r |-> <<>>]
    ELSE Unscaled(BigDivDown(sa, sb, Len(sa), <<>>, <<>>), sh)

BigDivBy(a, b, sh) == BigDivScaled(BigShl(a, sh), BigShl(b, sh), sh)

\* a divided by b > 0: both are scaled to bring the top limb of b to
\* Base / 2 or more, which leaves the quotient as it is
BigDivMod(a, b) == BigDivBy(a, b, 15 - (BigBits(b) - 15 * (Len(b) - 1)))

\* top, or the next number up: half is -1, 0 or 1 as what was cut off is
\* under, at or over half a unit of top
FRoundUp(top, half, leftover, e) ==
    [m |-> IF half > 0 \/ (half = 0 /\ (leftover \/ top[1] % 2 = 1))
           THEN BigAdd(top, <<1>>) ELSE top,
     e |-> e]

FRoundAt(n, leftover, e, k) ==
    IF k <= 0 THEN [m |-> n, e |-> e]
    ELSE FRoundUp(BigShr(n, k), BigCmp(BigLow(n, k), BigShl(<<1>>, k - 1)),
                  leftover, e + k)

\* The double m * 2^e nearest to n * 2^e, n having any number of digits: n
\* keeps its 53 leading digits and is rounded on the rest, a tie to the even
\* one; leftover says that something under the last digit of n was dropped
FRoundBits(n, leftover, e) == FRoundAt(n, leftover, e, BigBits(n) - 53)

FRoundQuotient(dm, e) == FRoundBits(dm.q, dm.r # <<>>, e)

FRoundScaled(p, q, e0, s) ==
    FRoundQuotient(BigDivMod(IF s >= 0 THEN BigShl(p, s) ELSE p,
                             IF s >= 0 THEN q ELSE BigShl(q, -s)),
                   e0 - s)

\* the double nearest to (p / q) * 2^e0: the quotient is taken with 54
\* digits or more and then rounded
FRound(p, q, e0) == FRoundScaled(p, q, e0, 54 - (BigBits(p) - BigBits(q)))

(***************************************************************************)
(* A float of Python: the double (-1)^neg * m * 2^e, m a whole number of   *)
(* 53 binary digits or fewer.  Each operation gives the double nearest to  *)
(* the exact result, a tie to the even one, as IEEE 754 has it.  Two       *)
(* records may stand for one number: floats are compared with FCmp.        *)
(***************************************************************************)
FZero == [neg |-> FALSE, m |-> <<>>, e |-> 0]

\* the double of magnitude r with the sign neg
Signed(neg, r) ==
    IF r.m = <<>> THEN FZero ELSE [neg |-> neg, m |-> r.m, e |-> r.e]

\* the whole number c with the sign neg
WithSign(neg, c) == IF neg THEN 0 - c ELSE c

\* the double of a whole number, and of the decimal literal n / d
FInt(n) ==
    IF n = 0 THEN FZero
    ELSE [neg |-> n < 0, m |-> Big(IF n < 0 THEN -n ELSE n), e |-> 0]

FLit(n, d) ==
    IF n = 0 THEN FZero
    ELSE Signed(n < 0, FRound(Big(IF n < 0 THEN -n ELSE n), Big(d), 0))

FNeg(x) ==
    IF x.m = <<>> THEN FZero ELSE [neg |-> ~x.neg, m |-> x.m, e |-> x.e]

\* the order of |x| and |y|, neither 0, from their digits at the exponent e
FCmpAt(x, y, e) == BigCmp(BigShl(x.m, x.e - e), BigShl(y.m, y.e - e))

\* -1, 0 or 1 as |x| is under, at or over |y|
FCmpAbs(x, y) ==
    IF x.m = <<>> THEN (IF y.m = <<>> THEN 0 ELSE -1)
    ELSE IF y.m = <<>> THEN 1
    ELSE FCmpAt(x, y, Min2(x.e, y.e))

\* -1, 0 or 1 as x is under, at or over y
FCmp(x, y) ==
    IF x.m = <<>> THEN (IF y.m = <<>> THEN 0 ELSE IF y.neg THEN 1 ELSE -1)
    ELSE IF y.m = <<>> THEN (IF x.neg THEN -1 ELSE 1)
    ELSE IF x.neg # y.neg THEN (IF x.neg THEN -1 ELSE 1)
    ELSE WithSign(x.neg, FCmpAbs(x, y))

FMul(x, y) ==
    IF x.m = <<>> \/ y.m = <<>> THEN FZero
    ELSE Signed(x.neg # y.neg, FRoundBits(BigMul(x.m, y.m), FALSE, x.e + y.e))

\* x / y for y other than 0
FDiv(x, y) ==
    IF x.m = <<>> \/ y.m = <<>> THEN FZero
    ELSE Signed(x.neg # y.neg, FRound(x.m, y.m, x.e - y.e))

\* the sign and the size of (-1)^xneg * a + (-1)^yneg * b
SignedSum(xneg, yneg, a, b) ==
    IF xneg = yneg THEN [neg |-> xneg, n |-> BigAdd(a, b)]
    ELSE IF BigCmp(a, b) >= 0 THEN [neg |-> xneg, n |-> BigSub(a, b)]
    ELSE [neg |-> yneg, n |-> BigSub(b, a)]

FRoundSum(sum, e) == Signed(sum.neg, FRoundBits(sum.n, FALSE, e))

\* x + y, neither 0, from their digits at the exponent e
FAddAt(x, y, e) ==
    FRoundSum(SignedSum(x.neg, y.neg,
                        BigShl(x.m, x.e - e), BigShl(y.m, y.e - e)), e)

FAdd(x, y) ==
    IF x.m = <<>> THEN y
    ELSE IF y.m = <<>> THEN x
    ELSE FAddAt(x, y, Min2(x.e, y.e))

FSub(x, y) == IF y.m = <<>> THEN x ELSE FAdd(x, FNeg(y))

\* min(x, y) and max(x, y) of Python: x unless y is under it, or over it
FMin(x, y) == IF FCmp(y, x) < 0 THEN y ELSE x

FMax(x, y) == IF FCmp(y, x) > 0 THEN y ELSE x

\* q, or the next number up: half as in FRoundUp
DecimalUp(q, half) ==
    IF half > 0 \/ (half = 0 /\ q % 2 = 1) THEN q + 1 ELSE q

\* n / 2^k to the nearest whole number, a tie to the even one
DecimalOf(n, k) ==
    DecimalUp(BigToInt(BigShr(n, k)),
              BigCmp(BigLow(n, k), BigShl(<<1>>, k - 1)))

\* round(x, k) of Python as a whole number of 10^-k, scale being 10^k:
\* the decimal nearest to the exact value of x, a tie to the even one
FRoundAbs(x, scale) ==
    IF x.e >= 0 THEN BigToInt(BigShl(x.m, x.e)) * scale
    ELSE DecimalOf(BigMulSmall(x.m, scale), -x.e)

FRoundTo(x, scale) ==
    IF x.m = <<>> THEN 0 ELSE WithSign(x.neg, FRoundAbs(x, scale))

\* int(x) of Python: the whole part of x, what lies after the point dropped
FTrunc(x) ==
    IF x.m = <<>> THEN 0
    ELSE WithSign(x.neg, BigToInt(IF x.e >= 0 THEN BigShl(x.m, x.e)
                                  ELSE BigShr(x.m, -x.e)))

\* abs(x)
FAbs(x) == IF x.neg THEN FNeg(x) ELSE x

\* the sum of the first k floats of q, added one after the other from 0
RECURSIVE FSumTo(_, _)
FSumTo(q, k) == IF k = 0 THEN FZero ELSE FAdd(FSumTo(q, k - 1), q[k])

\* sum(q) of Python on a list of floats
FSum(q) == FSumTo(q, Len(q))

\* the literals 0.1 .. 1.5 of the source: Tenths[4] is 0.4
Tenths == [n \in 1..15 |-> FLit(n, 10)]

\* the elements of a set of integers, ascending
Ascending(S) ==
    IF S = {} THEN <<>>
    ELSE LET lo == SetMin(S)
             hi == SetMax(S)
         IN  SelectSeq([i \in 1..(hi - lo + 1) |-> lo + i - 1],
                       LAMBDA v : v \in S)

\* s[lo..hi] starts with the characters of pat at position lo
MatchAt(s, lo, pat) ==
    /\ lo >= 1
    /\ lo + Len(pat) - 1 <= Len(s)
    /\ \A k \in 1..Len(pat) : s[lo + k - 1] = pat[k]

\* `pat in s' of Python
Contains(s, pat) == \E lo \in 1..(Len(s) + 1) : MatchAt(s, lo, pat)

\* \b of the re module at the gap before position i (1..Len(s)+1)
WordBoundary(s, i) ==
    LET before == i > 1 /\ IsW(s[i - 1])
        after  == i <= Len(s) /\ IsW(s[i])
    IN  before # after

\* the last position of the run of \w characters that holds position i
RECURSIVE WordEnd(_, _)
WordEnd(s, i) ==
    IF i < Len(s) /\ IsW(s[i + 1]) THEN WordEnd(s, i + 1) ELSE i

\* where the maximal runs of \w characters start
WordStarts(s) ==
    {i \in 1..Len(s) : IsW(s[i]) /\ (i = 1 \/ ~IsW(s[i - 1]))}

\* re.findall(r'\w+', s) and re.findall(r'\b\w+\b', s): the runs, in order
FindWords(s) ==
    LET st == Ascending(WordStarts(s))
    IN  [k \in 1..Len(st) |-> SubSeq(s, st[k], WordEnd(s, st[k]))]

\* where the blank-separated chunks of s[lo..hi] start: s[lo..hi].split()
ChunkStarts(s, lo, hi) ==
    {k \in lo..hi : ~IsSpace(s[k]) /\ (k = lo \/ IsSpace(s[k - 1]))}

\* len(s[lo..hi].split())
SplitLen(s, lo, hi) == Cardinality(ChunkStarts(s, lo, hi))

\* len(s.strip())
StripLen(s) ==
    LET ink == {k \in 1..Len(s) : ~IsSpace(s[k])}
    IN  IF ink = {} THEN 0 ELSE SetMax(ink) - SetMin(ink) + 1

\* re.split(r'[.!?]+', s) with the blank pieces dropped: each piece that
\* holds a non-blank character, as the pair of its first and last position
PieceEnd(s, i) ==
    SetMin({j \in i..Len(s) : j = Len(s) \/ IsTerm(s[j + 1])})

SentencePieces(s) ==
    LET starts == {i \in 1..Len(s) :
                      ~IsTerm(s[i]) /\ (i = 1 \/ IsTerm(s[i - 1]))}
        kept   == {i \in starts : SplitLen(s, i, PieceEnd(s, i)) > 0}
        st     == Ascending(kept)
    IN  [k \in 1..Len(st) |-> <<st[k], PieceEnd(s, st[k])>>]

\* len(re.split(r'[.!?]+', s)): every piece, the blank ones included
SplitPieceCount(s) ==
    1 + Cardinality({i \in 1..Len(s) :
                        IsTerm(s[i]) /\ (i = 1 \/ ~IsTerm(s[i - 1]))})


(***************************************************************************)
(* The words the texts of the model are made of, spelled out, and the      *)
(* texts themselves.  A text is named by a short identifier; Text gives    *)
(* its characters.                                                         *)
(***************************************************************************)
w_the == <<"t","h","e">>
w_essay == <<"e","s","s","a","y">>
w_is == <<"i","s">>
w_graded == <<"g","r","a","d","e","d">>
w_because == <<"b","e","c","a","u","s","e">>
w_significant == <<"s","i","g","n","i","f","i","c","a","n","t">>
w_analyze == <<"a","n","a","l","y","z","e">>
w_we == <<"w","e">>
w_show == <<"s","h","o","w">>
w_results == <<"r","e","s","u","l","t","s">>
w_ok == <<"o","k">>
w_therefore == <<"t","h","e","r","e","f","o","r","e">>
w_evaluate == <<"e","v","a","l","u","a","t","e">>
w_demonstrate == <<"d","e","m","o","n","s","t","r","a","t","e">>
w_illustrate == <<"i","l","l","u","s","t","r","a","t","e">>
w_synthesize == <<"s","y","n","t","h","e","s","i","z","e">>
w_interpret == <<"i","n","t","e","r","p","r","e","t">>
w_examine == <<"e","x","a","m","i","n","e">>
w_investigate == <<"i","n","v","e","s","t","i","g","a","t","e">>
w_emphasize == <<"e","m","p","h","a","s","i","z","e">>
w_according == <<"a","c","c","o","r","d","i","n","g">>
w_to == <<"t","o">>

\* ACADEMIC_VOCABULARY
ACADEMIC_VOCABULARY ==
    {w_analyze, w_evaluate, w_demonstrate, w_illustrate, w_synthesize,
     w_interpret, w_examine, w_investigate, w_emphasize, w_significant}

\* the words a generated sentence cycles through
Lexicon ==
    <<w_the, w_essay, w_is, w_graded, w_because, w_we, w_analyze, w_results>>

UpperCh(ch) ==
    CASE ch = "a" -> "A" [] ch = "c" -> "C" [] ch = "e" -> "E"
      [] ch = "g" -> "G" [] ch = "i" -> "I" [] ch = "s" -> "S"
      [] ch = "t" -> "T" [] OTHER -> ch
Capitalized(w) == [i \in 1..Len(w) |-> IF i = 1 THEN UpperCh(w[i]) ELSE w[i]]

RECURSIVE JoinWith(_, _)
JoinWith(parts, sep) ==
    IF parts = <<>> THEN <<>>
    ELSE IF Len(parts) = 1 THEN parts[1]
    ELSE parts[1] \o sep \o JoinWith(Tail(parts), sep)

RECURSIVE Repeat(_, _)
Repeat(part, n) == IF n = 0 THEN <<>> ELSE part \o Repeat(part, n - 1)

\* n words of the lexicon from offset off on, the first one capitalized,
\* closed by the characters of term
Sentence(n, off, term) ==
    LET ws == [k \in 1..n |->
                 LET w == Lexicon[((off + k - 1) % Len(Lexicon)) + 1]
                 IN  IF k = 1 THEN Capitalized(w) ELSE w]
    IN  JoinWith(ws, <<" ">>) \o term

\* ns sentences of n words each, separated by one blank
Paragraph(ns, n, off) ==
    JoinWith([k \in 1..ns |-> Sentence(n, off + k - 1, <<".">>)], <<" ">>)

ParaBreak == <<"\n", "\n">>

\* The texts graded and checked.  "blank" (ten blanks) and "dots" are the
\* shortest contents the request schema lets through (min_length = 10);
\* "dotted" is twenty full stops, long enough to be checked and without a
\* word; "empty" is the content a plagiarism check takes as absent ('' and
\* None are both false to `not content');
\* "formal6" is six sentences with two formal indicators each; "echo" says
\* four words twice and "chorus" says them three times;
\* "pair" has two words in 24 characters;
\* "short15" has 15 characters; "essay" has four paragraphs: 25 words of
\* introduction, two of 64 words and 18 words of conclusion.
Text ==
    [empty    |-> <<>>,
     blank    |-> Repeat(<<" ">>, 10),
     dots     |-> Repeat(<<".">>, 10),
     dotted   |-> Repeat(<<".">>, 20),
     short15  |-> Capitalized(w_the) \o <<" ">> \o w_essay \o <<" ">> \o w_is
                    \o <<" ">> \o w_ok,
     one      |-> Sentence(8, 0, <<".">>),
     repeats  |-> JoinWith(<<w_the, w_the, w_essay, w_is, w_is, w_graded,
                             w_graded, w_graded>>, <<" ">>),
     three    |-> Paragraph(3, 6, 0),
     question |-> Sentence(5, 0, <<"?">>) \o <<" ">>
                    \o Capitalized(w_the) \o <<" ">> \o w_results \o <<" ">>
                    \o w_show \o <<" ">> \o w_significant \o <<" ">>
                    \o w_therefore \o <<" ">> \o <<"[","1","]",".">>
                    \o <<" ">> \o Sentence(7, 3, <<"!">>),
     shifted  |-> Sentence(8, 3, <<".">>),
     pair     |-> Capitalized(w_demonstrate) \o <<" ">> \o w_investigate
                    \o <<".">>,
     formal   |-> JoinWith(<<Capitalized(w_therefore), w_according, w_to,
                             w_the, w_results, w_we, w_analyze, w_the,
                             w_essay, w_because, w_the, w_essay, w_is,
                             w_graded>>, <<" ">>) \o <<".">>,
     unrelated |-> JoinWith(<<Capitalized(w_investigate), w_examine,
                              w_interpret, w_emphasize, w_synthesize>>,
                            <<" ">>) \o <<".">>,
     formal6  |-> JoinWith([k \in 1..6 |->
                              JoinWith(<<Capitalized(w_therefore),
                                         w_according, w_to, w_the, w_results,
                                         w_we, w_analyze, w_the, w_essay,
                                         w_because, w_the, w_essay, w_is,
                                         w_graded>>, <<" ">>) \o <<".">>],
                           <<" ">>),
     echo     |-> JoinWith(<<w_the, w_essay, w_is, w_graded, w_the, w_essay,
                             w_is, w_graded>>, <<" ">>),
     chorus   |-> JoinWith(<<w_the, w_essay, w_is, w_graded, w_the, w_essay,
                             w_is, w_graded, w_the, w_essay, w_is,
                             w_graded>>, <<" ">>),
     longs    |-> Paragraph(3, 31, 0),
     five     |-> JoinWith([k \in 1..5 |-> Paragraph(1, 16, k)], ParaBreak),
     essay    |-> JoinWith(<<Sentence(25, 0, <<".">>), Paragraph(4, 16, 1),
                             Paragraph(4, 16, 2), Sentence(18, 0, <<".">>)>>,
                           ParaBreak)]

\* the texts graded
Contents == DOMAIN Text \ {"empty", "formal6", "echo", "chorus", "pair"}

(***************************************************************************)
(* enhanced_services/ai_grading.py: the text metrics and the four scorers. *)
(* The score of the grammar and of the structure scorer (a whole number of *)
(* 0..100 in the source) and a number the source rounds to two places are  *)
(* held in hundredths, so 6500 stands for 65.0; a number the source leaves *)
(* unrounded is the float it is.                                           *)
(***************************************************************************)
count_words(text) == Cardinality(WordStarts(text))

count_sentences(text) ==
    LET ps == SentencePieces(text)
    IN  Cardinality({k \in 1..Len(ps) : SplitLen(text, ps[k][1], ps[k][2]) > 2})

\* complexity_score and unique_words_ratio, rounded to two places, in
\* hundredths; the result on a text without a word has no long_words_count
analyze_vocabulary_complexity(text) ==
    LET words == FindWords(StrLower(text))
        n     == Len(words)
        academic_word_count ==
            Cardinality({k \in 1..n : words[k] \in ACADEMIC_VOCABULARY})
        unique_words == {words[k] : k \in 1..n}
        unique_ratio == FDiv(FInt(Cardinality(unique_words)), FInt(n))
        long_words   == Cardinality({k \in 1..n : Len(words[k]) > 6})
        complexity_score ==
            FMul(FAdd(FAdd(FMul(FDiv(FInt(long_words), FInt(n)), Tenths[4]),
                           FMul(unique_ratio, Tenths[4])),
                      FMul(FDiv(FInt(academic_word_count), FInt(Max2(n, 1))),
                           Tenths[2])),
                 FInt(100))
    IN  IF n = 0
        THEN [complexity_score |-> 0, academic_word_count |-> 0,
              unique_words_ratio |-> 0]
        ELSE [complexity_score |-> FRoundTo(complexity_score, 100),
              academic_word_count |-> academic_word_count,
              unique_words_ratio |-> FRoundTo(unique_ratio, 100),
              long_words_count |-> long_words]

\* length_score with the middle piece rising by 0.5, not 0.3
length_score_steep(word_count, min_words) ==
    IF word_count < min_words
    THEN [raised |-> FALSE,
          value |-> FMul(FDiv(FInt(word_count), FInt(min_words)), Tenths[5])]
    ELSE IF FCmp(FInt(word_count), FMul(FInt(min_words), Tenths[15])) < 0
    THEN [raised |-> FALSE,
          value |-> FAdd(Tenths[5],
                         FMul(FDiv(FInt(word_count - min_words),
                                   FMul(FInt(min_words), Tenths[5])),
                              Tenths[5]))]
    ELSE IF min_words * 2 = 0
    THEN [raised |-> TRUE]
    ELSE [raised |-> FALSE,
          value |-> FAdd(Tenths[8],
                         FMin(FDiv(FSub(FInt(word_count),
                                        FMul(FInt(min_words), Tenths[15])),
                                   FInt(min_words * 2)),
                              Tenths[2]))]

\* length_score of calculate_content_score, a float; raised where the
\* source divides by min_words * 2 = 0
length_score(word_count, min_words) ==
    IF word_count < min_words
    THEN [raised |-> FALSE,
          value |-> FMul(FDiv(FInt(word_count), FInt(min_words)), Tenths[5])]
    ELSE IF FCmp(FInt(word_count), FMul(FInt(min_words), Tenths[15])) < 0
    THEN [raised |-> FALSE,
          value |-> FAdd(Tenths[5],
                         FMul(FDiv(FInt(word_count - min_words),
                                   FMul(FInt(min_words), Tenths[5])),
                              Tenths[3]))]
    ELSE IF min_words * 2 = 0
    THEN [raised |-> TRUE]
    ELSE [raised |-> FALSE,
          value |-> FAdd(Tenths[8],
                         FMin(FDiv(FSub(FInt(word_count),
                                        FMul(FInt(min_words), Tenths[15])),
                                   FInt(min_words * 2)),
                              Tenths[2]))]

\* What textstat gave for the text: flesch_reading_ease a whole number
\* here, or an exception; and whether flesch_kincaid_grade, called after
\* it, raised
FleschRaised == [raised |-> TRUE, value |-> 0, grade_raised |-> FALSE]
FleschValue(v) == [raised |-> FALSE, value |-> v, grade_raised |-> FALSE]
FleschGradeRaised(v) == [raised |-> FALSE, value |-> v, grade_raised |-> TRUE]

\* readability_score without its clamp to 0..1
readability_score_unclamped(flesch) ==
    IF flesch.raised THEN Tenths[5]
    ELSE FDiv(FSub(FInt(flesch.value), FInt(30)), FInt(70))

\* readability_score, a float: 0.5 when flesch_reading_ease raised
readability_score(flesch) ==
    IF flesch.raised THEN Tenths[5]
    ELSE FMin(FMax(FDiv(FSub(FInt(flesch.value), FInt(30)), FInt(70)),
                   FZero),
              FInt(1))

\* score is overall_score, the float the source returns unrounded
calculate_content_score(text, min_words, flesch) ==
    LET word_count == count_words(text)
        ls    == length_score(word_count, min_words)
        vocab_analysis == analyze_vocabulary_complexity(text)
        vocab_score ==
            FDiv(FLit(vocab_analysis.complexity_score, 100), FInt(100))
        overall_score ==
            FMul(FAdd(FAdd(FMul(ls.value, Tenths[4]),
                           FMul(vocab_score, Tenths[4])),
                      FMul(readability_score(flesch), Tenths[2])),
                 FInt(100))
        fb1   == IF word_count < min_words THEN <<"too_short">>
                 ELSE IF word_count > min_words * 3 THEN <<"comprehensive">>
                 ELSE <<>>
        fb2   == IF vocab_analysis.unique_words_ratio < 40
                 THEN <<"limited_vocabulary">>
                 ELSE IF vocab_analysis.academic_word_count > 5
                 THEN <<"academic">>
                 ELSE <<>>
    IN  IF ls.raised THEN [raised |-> TRUE]
        ELSE [raised |-> FALSE,
              score |-> overall_score,
              feedback |-> IF fb1 \o fb2 = <<>> THEN <<"good_content">>
                           ELSE fb1 \o fb2]

\* the words of text as pairs <<first, last>>, in order
WordSpans(text) ==
    LET st == Ascending(WordStarts(text))
    IN  [k \in 1..Len(st) |-> <<st[k], WordEnd(text, st[k])>>]

\* only blanks, and at least one, lie between positions e and b
BlankBetween(text, e, b) ==
    b > e + 1 /\ \A k \in (e + 1)..(b - 1) : IsSpace(text[k])

\* len(re.findall(r'\b(\w+)\s+\1\b', text, re.IGNORECASE)): scanning the
\* words from the k-th on, a word and its repetition are consumed together
\* (k is 1 in every use): in a run of words each the repetition of the one
\* before it, every second pair is a match
RepeatedFrom(text, spans, k) ==
    LET Same(j) == /\ BlankBetween(text, spans[j][2], spans[j + 1][1])
                   /\ StrLower(SubSeq(text, spans[j][1], spans[j][2]))
                        = StrLower(SubSeq(text, spans[j + 1][1],
                                          spans[j + 1][2]))
        same == {j \in k..(Len(spans) - 1) : Same(j)}
        RunStart(j) == SetMax({i \in k..j : i = k \/ (i - 1) \notin same})
    IN  Cardinality({j \in same : (j - RunStart(j)) % 2 = 0})

\* (is|are|was|were|been|be)
ToBeWords ==
    {<<"i","s">>, <<"a","r","e">>, <<"w","a","s">>, <<"w","e","r","e">>,
     <<"b","e","e","n">>, <<"b","e">>}

\* len(re.findall(r'\b(is|are|was|were|been|be)\s+\w+ed\b', text, re.I))
passive_indicators(text) ==
    LET spans == WordSpans(text)
        low   == StrLower(text)
        hit(k) ==
            LET a == spans[k]
                b == spans[k + 1]
            IN  /\ SubSeq(low, a[1], a[2]) \in ToBeWords
                /\ BlankBetween(text, a[2], b[1])
                /\ b[2] - b[1] + 1 >= 3
                /\ low[b[2] - 1] = "e"
                /\ low[b[2]] = "d"
    IN  Cardinality({k \in 1..(Len(spans) - 1) : hit(k)})

\* the first character of s[lo..hi].strip()
FirstInk(s, lo, hi) == s[SetMin({k \in lo..hi : ~IsSpace(s[k])})]

\* re.search(r'[.!?]$', text.strip())
has_proper_punctuation(text) ==
    LET ink == {k \in 1..Len(text) : ~IsSpace(text[k])}
    IN  ink # {} /\ IsTerm(text[SetMax(ink)])

\* the deductions added to the score they are to be taken from
GrammarScore_added(deductions) == Max2(90 + deductions, 0)

\* score = 90, less the deductions, then max(score, 0)
GrammarScore(deductions) == Max2(90 - deductions, 0)

calculate_grammar_score(text) ==
    LET sentences == SentencePieces(text)
        sentence_count == Len(sentences)
        words(k) == SplitLen(text, sentences[k][1], sentences[k][2])
        repeated_words == RepeatedFrom(text, WordSpans(text), 1)
        long_sentences ==
            Cardinality({k \in 1..sentence_count : words(k) > 30})
        fragments == Cardinality({k \in 1..sentence_count : words(k) < 5})
        capitalized ==
            Cardinality({k \in 1..sentence_count :
                IsUpperCh(FirstInk(text, sentences[k][1], sentences[k][2]))})
        d1 == IF ~has_proper_punctuation(text) THEN 10 ELSE 0
        d2 == IF repeated_words > 0 THEN Min2(repeated_words * 5, 20) ELSE 0
        d3 == IF sentence_count < 3 THEN 15 ELSE 0
        d4 == IF 10 * passive_indicators(text) > 3 * sentence_count
              THEN 10 ELSE 0
        d5 == IF long_sentences > 2 THEN 5 ELSE 0
        d6 == IF fragments > 1 THEN 10 ELSE 0
        d7 == IF 10 * capitalized < 9 * Max2(sentence_count, 1) THEN 5 ELSE 0
        score == GrammarScore(d1 + d2 + d3 + d4 + d5 + d6 + d7)
        notes == (IF d1 > 0 THEN <<"missing_punctuation">> ELSE <<>>)
              \o (IF d2 > 0 THEN <<"repeated_words">> ELSE <<>>)
              \o (IF d3 > 0 THEN <<"too_few_sentences">> ELSE <<>>)
              \o (IF d4 > 0 THEN <<"passive_voice">> ELSE <<>>)
              \o (IF d5 > 0 THEN <<"long_sentences">> ELSE <<>>)
              \o (IF d6 > 0 THEN <<"fragments">> ELSE <<>>)
              \o (IF d7 > 0 THEN <<"capitalization">> ELSE <<>>)
        fb == IF score >= 85 THEN <<"strong_grammar">> \o notes ELSE notes
    IN  [score |-> score * 100,
         feedback |-> IF fb = <<>> THEN <<"excellent_grammar">> ELSE fb]

\* where a run of two or more newlines starts: text.split('\n\n') cuts there
ParaBreaks(text) ==
    {i \in 1..(Len(text) - 1) :
        /\ text[i] = "\n" /\ text[i + 1] = "\n"
        /\ (i = 1 \/ text[i - 1] # "\n")}

\* len(p.split()) for each p of text.split('\n\n') with p.strip(), in order
ParagraphLengths(text) ==
    LET breaks == ParaBreaks(text)
        chunks == ChunkStarts(text, 1, Len(text))
        para(k) == Cardinality({b \in breaks : b < k})
        used   == Ascending({para(k) : k \in chunks})
    IN  [j \in 1..Len(used) |->
            Cardinality({k \in chunks : para(k) = used[j]})]

\* Without paragraphs or sentences the source returns a dictionary with no
\* "score" key: [empty |-> TRUE]
calculate_structure_score(text) ==
    LET lens      == ParagraphLengths(text)
        n         == Len(lens)
        sentences == SentencePieces(text)
        ns        == Len(sentences)
        wc        == count_words(text)
        has_introduction == n > 0 /\ lens[1] > 20
        has_conclusion   == n > 1 /\ lens[n] > 15
        sum   == SumSeq(lens)
        sumsq == SumSeq([j \in 1..n |-> lens[j] * lens[j]])
        \* structure_balance > 70, that is variance < 30
        balanced == n > 1 /\ n * sumsq - sum * sum < 30 * n * n
        s1 == IF has_introduction THEN 15 ELSE 0
        s2 == IF has_conclusion THEN 15 ELSE 0
        s3 == IF n >= 5 THEN 15 ELSE IF n >= 3 THEN 10
              ELSE IF n >= 2 THEN 5 ELSE 0
        s4 == IF wc >= 15 * ns /\ wc <= 25 * ns THEN 10
              ELSE IF wc >= 12 * ns /\ wc <= 30 * ns THEN 5 ELSE 0
        s5 == IF balanced THEN 5 ELSE 0
        notes == (IF balanced THEN <<"well_balanced">> ELSE <<>>)
              \o (IF s1 = 0 THEN <<"add_introduction">> ELSE <<>>)
              \o (IF s2 = 0 THEN <<"add_conclusion">> ELSE <<>>)
              \o (IF s3 = 0 THEN <<"more_paragraphs">> ELSE <<>>)
              \o (IF s4 = 0 THEN <<"balance_sentences">> ELSE <<>>)
    IN  IF n = 0 \/ ns = 0
        THEN [empty |-> TRUE]
        ELSE [empty |-> FALSE,
              score |-> Min2(60 + s1 + s2 + s3 + s4 + s5, 100) * 100,
              feedback |-> IF notes = <<>> THEN <<"excellent_structure">>
                           ELSE notes]

\* reasoning_patterns: the alternatives of the four expressions
reasoning_patterns ==
    <<{<<"b","e","c","a","u","s","e">>,
       <<"s","i","n","c","e">>,
       <<"t","h","e","r","e","f","o","r","e">>,
       <<"t","h","u","s">>,
       <<"h","e","n","c","e">>,
       <<"c","o","n","s","e","q","u","e","n","t","l","y">>},
      {<<"f","o","r"," ","e","x","a","m","p","l","e">>,
       <<"f","o","r"," ","i","n","s","t","a","n","c","e">>,
       <<"s","u","c","h"," ","a","s">>,
       <<"i","n","c","l","u","d","i","n","g">>},
      {<<"a","c","c","o","r","d","i","n","g"," ","t","o">>,
       <<"r","e","s","e","a","r","c","h"," ","s","h","o","w","s">>,
       <<"s","t","u","d","i","e","s"," ","i","n","d","i","c","a","t","e">>},
      {<<"i","n"," ","c","o","n","t","r","a","s","t">>,
       <<"o","n"," ","t","h","e"," ","o","t","h","e","r"," ","h","a","n","d">>,
       <<"a","l","t","e","r","n","a","t","i","v","e","l","y">>}>>

\* len(re.findall(r'\b(p1|p2|...)\b', text, re.IGNORECASE))
CountAlternatives(text, pats) ==
    LET low == StrLower(text)
    IN  Cardinality({i \in 1..Len(text) :
            \E p \in pats : /\ MatchAt(low, i, p)
                            /\ WordBoundary(text, i)
                            /\ WordBoundary(text, i + Len(p))})

\* where a match of \([^)]*\d{4}[^)]*\)|\[\d+\] that starts at i ends,
\* 0 when none starts there
CitationEnd(text, i) ==
    LET n == Len(text)
        closeP == {j \in (i + 1)..n : text[j] = ")"}
        closeB == {j \in (i + 1)..n : text[j] = "]"}
    IN  IF text[i] = "(" /\ closeP # {}
        THEN LET j == SetMin(closeP)
             IN  IF \E d \in (i + 1)..(j - 4) :
                        \A k \in d..(d + 3) : text[k] \in DigitChars
                 THEN j ELSE 0
        ELSE IF text[i] = "[" /\ closeB # {}
        THEN LET j == SetMin(closeB)
             IN  IF j > i + 1 /\ \A k \in (i + 1)..(j - 1) : text[k] \in DigitChars
                 THEN j ELSE 0
        ELSE 0

RECURSIVE CitationsFrom(_, _)
CitationsFrom(text, p) ==
    LET starts == {i \in p..Len(text) : CitationEnd(text, i) > 0}
    IN  IF starts = {} THEN 0
        ELSE 1 + CitationsFrom(text, CitationEnd(text, SetMin(starts)) + 1)

\* argument_score is round(score, 2) in hundredths, score the float of the
\* source
analyze_argument_quality(text) ==
    LET reasoning_indicators ==
            SumSeq([f \in 1..Len(reasoning_patterns) |->
                       CountAlternatives(text, reasoning_patterns[f])])
        citations == CitationsFrom(text, 1)
        questions == Cardinality({i \in 1..Len(text) : text[i] = "?"})
        sentence_count == count_sentences(text)
        reasoning_density ==
            FDiv(FInt(reasoning_indicators), FInt(Max2(sentence_count, 1)))
        score ==
            FMin(FAdd(FAdd(FMul(reasoning_density, FInt(100)),
                           FInt(citations * 10)),
                      FInt(questions * 5)),
                 FInt(100))
    IN  [reasoning_indicators |-> reasoning_indicators,
         citations |-> citations,
         questions |-> questions,
         argument_score |-> FRoundTo(score, 100)]

(***************************************************************************)
(* Rubrics.  A rubric is the sequence of its entries in the order of the   *)
(* dict; an entry is a criterion name with its configuration.  kind tells  *)
(* a plain dict (what the LMS's JSON or a Python caller gives) from a      *)
(* RubricCriterion object of main.py, which has no method get.  A field    *)
(* the configuration may lack or hold None in is a record with a tag.      *)
(***************************************************************************)
n_content == <<"C","o","n","t","e","n","t">>
n_grammar_style == <<"g","r","a","m","m","a","r","_","s","t","y","l","e">>
n_structure == <<"s","t","r","u","c","t","u","r","e">>
n_critical_analysis ==
    <<"c","r","i","t","i","c","a","l","_","a","n","a","l","y","s","i","s">>
n_creativity == <<"c","r","e","a","t","i","v","i","t","y">>
n_thesis == <<"t","h","e","s","i","s">>
n_language == <<"l","a","n","g","u","a","g","e">>

\* the spelling of each criterion name of the model
CriterionName ==
    [content |-> n_content, grammar_style |-> n_grammar_style,
     structure |-> n_structure, critical_analysis |-> n_critical_analysis,
     creativity |-> n_creativity, thesis |-> n_thesis,
     language |-> n_language]

Absent == [tag |-> "absent", v |-> 0]
PyNone == [tag |-> "none", v |-> 0]
PyInt(v) == [tag |-> "int", v |-> v]

DictEntry(name, max_points, min_words) ==
    [name |-> name, kind |-> "dict",
     max_points |-> max_points, min_words |-> min_words]
\* RubricCriterion(max_points = .., min_words = ..): min_words is None
\* when the request leaves it out
ModelEntry(name, max_points, min_words) ==
    [name |-> name, kind |-> "model",
     max_points |-> PyInt(max_points), min_words |-> min_words]

Rubric ==
    [empty     |-> <<>>,
     content   |-> <<DictEntry("content", PyInt(30), PyInt(100))>>,
     content5  |-> <<DictEntry("content", PyInt(100), PyInt(5))>>,
     grammar   |-> <<DictEntry("grammar_style", PyInt(20), Absent)>>,
     structure |-> <<DictEntry("structure", PyInt(25), Absent)>>,
     full      |-> <<DictEntry("content", PyInt(30), PyInt(100)),
                     DictEntry("structure", PyInt(25), Absent),
                     DictEntry("grammar_style", PyInt(20), Absent),
                     DictEntry("critical_analysis", PyInt(25), Absent)>>,
     zero      |-> <<DictEntry("content", PyInt(30), PyInt(0)),
                     DictEntry("grammar_style", PyInt(20), Absent)>>,
     zero_only |-> <<DictEntry("content", PyInt(30), PyInt(0))>>,
     defaults  |-> <<DictEntry("creativity", Absent, Absent),
                     DictEntry("critical_analysis", PyInt(1), Absent)>>,
     none      |-> <<DictEntry("creativity", PyInt(20), PyNone),
                     DictEntry("structure", PyInt(100), Absent)>>,
     six       |-> <<DictEntry("content", PyInt(30), PyInt(100)),
                     DictEntry("creativity", PyInt(20), Absent),
                     DictEntry("grammar_style", PyInt(20), Absent),
                     DictEntry("critical_analysis", PyInt(25), Absent),
                     DictEntry("thesis", PyInt(10), Absent),
                     DictEntry("language", PyInt(10), Absent)>>,
     thirds    |-> <<DictEntry("grammar_style", PyInt(3), Absent)>>,
     request   |-> <<ModelEntry("content", 30, PyInt(100)),
                     ModelEntry("grammar_style", 20, PyNone)>>,
     request1  |-> <<ModelEntry("structure", 25, PyNone)>>]

Rubrics == DOMAIN Rubric
\* the rubrics a GradingRequest can carry: Dict[str, RubricCriterion]
RequestRubrics == {"empty", "request", "request1"}
\* the rubrics the LMS can hold for an assignment: parsed JSON
StoredRubrics == Rubrics \ {"request", "request1"}

\* the values flesch_reading_ease gives in the model
FleschOutcomes ==
    {FleschRaised, FleschValue(20), FleschValue(65), FleschValue(110),
     FleschGradeRaised(20)}

(***************************************************************************)
(* The scorers' results on the texts of the model, computed once.          *)
(***************************************************************************)
Metrics ==
    [c \in Contents |->
        [word_count     |-> count_words(Text[c]),
         sentence_count |-> count_sentences(Text[c]),
         grammar        |-> calculate_grammar_score(Text[c]),
         structure      |-> calculate_structure_score(Text[c]),
         argument       |-> analyze_argument_quality(Text[c])]]

ContentScore ==
    [c \in Contents |->
        [m \in {0, 5, 100} |->
            [f \in FleschOutcomes |->
                calculate_content_score(Text[c], m, f)]]]

(***************************************************************************)
(* grade_essay_with_database, the body of its loop: one criterion.         *)
(***************************************************************************)
p_content == <<"c","o","n","t","e","n","t">>
p_thesis == <<"t","h","e","s","i","s">>
p_grammar == <<"g","r","a","m","m","a","r">>
p_style == <<"s","t","y","l","e">>
p_language == <<"l","a","n","g","u","a","g","e">>
p_structure == <<"s","t","r","u","c","t","u","r","e">>
p_organization == <<"o","r","g","a","n","i","z","a","t","i","o","n">>
p_argument == <<"a","r","g","u","m","e","n","t">>
p_analysis == <<"a","n","a","l","y","s","i","s">>
p_critical == <<"c","r","i","t","i","c","a","l">>

\* the chain with its second test made first
Strategy_grammar_first(criterion_name) ==
    LET criterion_lower == StrLower(criterion_name)
        has(p) == Contains(criterion_lower, p)
    IN  IF has(p_grammar) \/ has(p_style) \/ has(p_language)
        THEN "grammar"
        ELSE IF has(p_content) \/ has(p_thesis) THEN "content"
        ELSE IF has(p_structure) \/ has(p_organization) THEN "structure"
        ELSE IF has(p_argument) \/ has(p_analysis) \/ has(p_critical)
        THEN "argument"
        ELSE "other"

\* which branch of the if / elif chain a criterion name takes
Strategy(criterion_name) ==
    LET criterion_lower == StrLower(criterion_name)
        has(p) == Contains(criterion_lower, p)
    IN  IF has(p_content) \/ has(p_thesis) THEN "content"
        ELSE IF has(p_grammar) \/ has(p_style) \/ has(p_language)
        THEN "grammar"
        ELSE IF has(p_structure) \/ has(p_organization) THEN "structure"
        ELSE IF has(p_argument) \/ has(p_analysis) \/ has(p_critical)
        THEN "argument"
        ELSE "other"

StrategyOf ==
    [n \in DOMAIN CriterionName |-> Strategy(CriterionName[n])]

Skipped ==
    [raised |-> TRUE, score |-> FZero, max_points |-> 0, feedback |-> <<>>]

\* What the body of the loop comes to for an entry on content c: score is
\* (raw / 100) * max_points, the float, of the raw result of the scorer the
\* entry selects; or Skipped where the body raises: get on a
\* RubricCriterion object, a comparison or a product with None, a division
\* by zero, or a result without "score".
ScoreCriterionOn(entry, flesch, branch, content_scores, metrics) ==
    LET max_points == IF entry.max_points.tag = "absent" THEN PyInt(20)
                      ELSE entry.max_points
        min_words  == IF entry.min_words.tag = "absent" THEN PyInt(100)
                      ELSE entry.min_words
        Done(raw, feedback) ==
            IF max_points.tag = "none" \/ max_points.v = 0 THEN Skipped
            ELSE [raised |-> FALSE,
                  score |-> FMul(FDiv(raw, FInt(100)), FInt(max_points.v)),
                  max_points |-> max_points.v,
                  feedback |-> feedback]
    IN  IF entry.kind = "model" THEN Skipped
        ELSE IF branch \in {"content", "other"}
        THEN IF min_words.tag = "none" THEN Skipped
             ELSE LET result == content_scores[min_words.v][flesch]
                  IN  IF result.raised THEN Skipped
                      ELSE Done(result.score,
                                IF branch = "content" THEN result.feedback
                                ELSE <<"comprehensive_evaluation">>)
        ELSE IF branch = "grammar"
        THEN Done(FInt(metrics.grammar.score \div 100),
                  metrics.grammar.feedback)
        ELSE IF branch = "structure"
        THEN IF metrics.structure.empty THEN Skipped
             ELSE Done(FInt(metrics.structure.score \div 100),
                       metrics.structure.feedback)
        ELSE Done(FLit(metrics.argument.argument_score, 100),
                  <<"reasoning">>)

\* one entry of rubric.items() on the content c
ScoreCriterion(entry, c, flesch) ==
    ScoreCriterionOn(entry, flesch, StrategyOf[entry.name], ContentScore[c],
                     Metrics[c])

\* The loop over rubric.items(): what each entry came to, in order
CriterionLoop(rubric, c, flesch) ==
    [k \in 1..Len(rubric) |-> ScoreCriterion(rubric[k], c, flesch)]

\* every position of the loop, the raising ones included
AllPositions(outcomes) == 1..Len(outcomes)

\* the positions of the entries that were scored
Succeeded(outcomes) == {k \in 1..Len(outcomes) : ~outcomes[k].raised}

\* the elements of q at the positions of S, in order
Pick(q, S) == LET idx == Ascending(S) IN [j \in 1..Len(idx) |-> q[idx[j]]]

\* What get_assignment returned: None, or the assignment with the rubric
\* it carries ("empty" where it carries none or an empty one)
NoAssignment == [found |-> FALSE, rubric |-> "empty"]
Assignment(rubric) == [found |-> TRUE, rubric |-> rubric]

GradingRaised(why) == [raised |-> TRUE, error |-> why]

\* the rubric the loop runs over: the assignment's where it has one
ScoredRubric(rubric, assignment) ==
    IF Rubric[assignment.rubric] # <<>> THEN assignment.rubric ELSE rubric

\* final_score >= limit, on the float before it is rounded
FinalScoreAtLeast(final_score, limit) == FCmp(final_score, FInt(limit)) >= 0

\* the band the feedback text opens with
ScoreBand(final_score) ==
    IF FinalScoreAtLeast(final_score, 93) THEN "outstanding"
    ELSE IF FinalScoreAtLeast(final_score, 85) THEN "excellent"
    ELSE IF FinalScoreAtLeast(final_score, 75) THEN "good"
    ELSE IF FinalScoreAtLeast(final_score, 65) THEN "satisfactory"
    ELSE "needs_development"

\* strengths[:6], one entry more than the result keeps
Truncated_six(list) == SubSeq(list, 1, Min2(Len(list), 6))

\* strengths[:5] and improvements[:5]
Truncated(list) == SubSeq(list, 1, Min2(Len(list), 5))

\* the points earned, not taken over the points there were to earn
FinalScore_points(total_weighted_score, total_weight) ==
    IF total_weight > 0 THEN total_weighted_score ELSE FZero

\* final_score = (total_weighted_score / total_weight * 100) if
\* total_weight > 0 else 0
FinalScore(total_weighted_score, total_weight) ==
    IF total_weight > 0
    THEN FMul(FDiv(total_weighted_score, FInt(total_weight)), FInt(100))
    ELSE FZero

\* grade_essay_with_database after the loop.  total_score and each score
\* are in hundredths, percentage in tenths, confidence in ten-thousandths,
\* as round() leaves them.
GradeOutcomes(entries, outcomes, metrics, flesch) ==
    LET ok       == Succeeded(outcomes)
        scored   == Pick(outcomes, ok)
        total_weighted_score ==
            FSum([j \in 1..Len(scored) |-> scored[j].score])
        total_weight ==
            SumSeq([j \in 1..Len(scored) |-> scored[j].max_points])
        final_score == FinalScore(total_weighted_score, total_weight)
        \* (score / max_points) * 100 of the k-th entry
        percentage ==
            [k \in 1..Len(entries) |->
                IF k \in ok
                THEN FMul(FDiv(outcomes[k].score,
                               FInt(outcomes[k].max_points)), FInt(100))
                ELSE FZero] \o <<>>
        strong == {k \in ok : FCmp(percentage[k], FInt(75)) >= 0}
        weak   == {k \in ok : FCmp(percentage[k], FInt(60)) < 0}
        strengths ==
            [j \in 1..Cardinality(strong) |->
                LET k == Ascending(strong)[j]
                IN  [what |-> IF FCmp(percentage[k], FInt(85)) >= 0
                              THEN "excellent"
                              ELSE "strong",
                     name |-> entries[k].name]]
        improvements ==
            [j \in 1..Cardinality(weak) |->
                [what |-> "focus", name |-> entries[Ascending(weak)[j]].name]]
        word_count     == metrics.word_count
        sentence_count == metrics.sentence_count
    IN  [raised |-> FALSE,
         total_score |-> FRoundTo(final_score, 100),
         criteria_scores |->
             Pick([k \in 1..Len(entries) |->
                      [name       |-> entries[k].name,
                       score      |-> FRoundTo(outcomes[k].score, 100),
                       max_score  |-> outcomes[k].max_points,
                       feedback   |-> outcomes[k].feedback,
                       percentage |-> FRoundTo(percentage[k], 10)]], ok),
         band |-> ScoreBand(final_score),
         strengths |->
             IF strengths = <<>> /\ FinalScoreAtLeast(final_score, 70)
             THEN <<[what |-> "solid", name |-> "overall"]>>
             ELSE Truncated(strengths),
         improvements |->
             IF improvements = <<>> /\ ~FinalScoreAtLeast(final_score, 95)
             THEN <<[what |-> "continue", name |-> "overall"]>>
             ELSE Truncated(improvements),
         confidence |->
             Min2(7000 + 3 * word_count + 100 * sentence_count, 9800),
         word_count |-> word_count,
         sentence_count |-> sentence_count,
         readability_score |->
             IF flesch.raised \/ flesch.grade_raised THEN 50
             ELSE flesch.value]

\* the loops over the entries of the rubrics of the model, computed once
CriterionLoops ==
    [r \in Rubrics |->
        [c \in Contents |->
            [f \in FleschOutcomes |-> CriterionLoop(Rubric[r], c, f)]]]

\* the gradings of the model: the loop and what follows it
Grading ==
    [r \in Rubrics |->
        [c \in Contents |->
            [f \in FleschOutcomes |->
                GradeOutcomes(Rubric[r], CriterionLoops[r][c][f], Metrics[c],
                              f)]]]

\* the ValueError grade_essay_with_database raises when get_assignment
\* returned None
AssignmentNotFound == GradingRaised("assignment_not_found")

grade_essay_with_database(c, rubric, assignment, flesch) ==
    IF ~assignment.found THEN AssignmentNotFound
    ELSE Grading[ScoredRubric(rubric, assignment)][c][flesch]

(***************************************************************************)
(* enhanced_services/plagiarism.py: the similarity measures.               *)
(***************************************************************************)
\* how far a[i..] and b[j..] agree, within a[..ahi] and b[..bhi]
RunLength(a, b, i, j, ahi, bhi) ==
    LET room == Min2(ahi - i + 1, bhi - j + 1)
    IN  IF room <= 0 THEN 0
        ELSE SetMin({n \in 0..room : n = room \/ a[i + n] # b[j + n]})

\* SequenceMatcher.find_longest_match on a[alo..ahi], b[blo..bhi] without
\* junk: the longest block, the earliest in a and then in b among those
find_longest_match(a, b, alo, ahi, blo, bhi) ==
    LET runs == [i \in alo..ahi |-> [j \in blo..bhi |->
                    RunLength(a, b, i, j, ahi, bhi)]]
        best == SetMax({0} \cup {runs[i][j] : i \in alo..ahi, j \in blo..bhi})
        i0   == SetMin({i \in alo..ahi : \E j \in blo..bhi : runs[i][j] = best})
        j0   == SetMin({j \in blo..bhi : runs[i0][j] = best})
    IN  IF alo > ahi \/ blo > bhi \/ best = 0
        THEN [i |-> alo, j |-> blo, size |-> 0]
        ELSE [i |-> i0, j |-> j0, size |-> best]

\* the total size of SequenceMatcher.get_matching_blocks()
RECURSIVE MatchedSize(_, _, _, _, _, _)
MatchedSize(a, b, alo, ahi, blo, bhi) ==
    LET m == find_longest_match(a, b, alo, ahi, blo, bhi)
    IN  IF m.size = 0 THEN 0
        ELSE m.size
             + MatchedSize(a, b, alo, m.i - 1, blo, m.j - 1)
             + MatchedSize(a, b, m.i + m.size, ahi, m.j + m.size, bhi)

\* calculate_similarity: SequenceMatcher(None, a, b).ratio() = 2M / T as
\* the pair of M and T (T = 0 gives the ratio 1); texts under 200
\* characters, where difflib's autojunk does not apply
calculate_similarity(text1, text2) ==
    LET a == StrLower(text1)
        b == StrLower(text2)
    IN  [matches |-> MatchedSize(a, b, 1, Len(a), 1, Len(b)),
         length  |-> Len(a) + Len(b)]

\* ratio() * 100, with ratio() = 2.0 * matches / length, and 1.0 where both
\* texts are empty
SimilarityPercent(sim) ==
    FMul(IF sim.length = 0 THEN FInt(1)
         ELSE FDiv(FInt(2 * sim.matches), FInt(sim.length)),
         FInt(100))

\* get_ngrams: the runs of n words, in order
get_ngrams(text, n) ==
    LET words == FindWords(StrLower(text))
    IN  [i \in 1..Max2(Len(words) - n + 1, 0) |-> SubSeq(words, i, i + n - 1)]

Range(q) == {q[k] : k \in 1..Len(q)}

\* the words in common over the words of the first text, not of both
calculate_jaccard_similarity_first(text1, text2) ==
    LET words1 == Range(FindWords(StrLower(text1)))
        words2 == Range(FindWords(StrLower(text2)))
    IN  IF words1 = {} \/ words2 = {}
        THEN [intersection |-> 0, union |-> 1]
        ELSE [intersection |-> Cardinality(words1 \cap words2),
              union        |-> Cardinality(words1)]

\* calculate_jaccard_similarity as the pair intersection, union; 0 / 1
\* where a text has no word
calculate_jaccard_similarity(text1, text2) ==
    LET words1 == Range(FindWords(StrLower(text1)))
        words2 == Range(FindWords(StrLower(text2)))
    IN  IF words1 = {} \/ words2 = {}
        THEN [intersection |-> 0, union |-> 1]
        ELSE [intersection |-> Cardinality(words1 \cap words2),
              union        |-> Cardinality(words1 \cup words2)]

\* (intersection / union) * 100
JaccardPercent(jac) ==
    FMul(FDiv(FInt(jac.intersection), FInt(jac.union)), FInt(100))

\* detect_paraphrasing with threshold = 0.6
detect_paraphrasing(text1, text2) ==
    LET ngrams1 == Range(get_ngrams(text1, 3))
        ngrams2 == Range(get_ngrams(text2, 3))
        words1  == Range(FindWords(StrLower(text1)))
        words2  == Range(FindWords(StrLower(text2)))
        common_words == words1 \cap words2
    IN  IF ngrams1 = {} \/ ngrams2 = {} THEN FALSE
        ELSE \/ 10 * Cardinality(ngrams1 \cap ngrams2)
                  > 6 * Min2(Cardinality(ngrams1), Cardinality(ngrams2))
             \/ 10 * Cardinality(common_words)
                  > 6 * Max2(Cardinality(words1), Cardinality(words2))

\* formal_indicators: the alternatives of the three expressions
formal_indicators ==
    <<{<<"t","h","e","r","e","f","o","r","e">>,
       <<"f","u","r","t","h","e","r","m","o","r","e">>,
       <<"m","o","r","e","o","v","e","r">>,
       <<"c","o","n","s","e","q","u","e","n","t","l","y">>,
       <<"n","e","v","e","r","t","h","e","l","e","s","s">>},
      {<<"i","t"," ","c","a","n"," ","b","e"," ","a","r","g","u","e","d",
         " ","t","h","a","t">>,
       <<"r","e","s","e","a","r","c","h"," ","i","n","d","i","c","a","t",
         "e","s">>,
       <<"s","t","u","d","i","e","s"," ","s","h","o","w">>},
      {<<"a","c","c","o","r","d","i","n","g"," ","t","o">>,
       <<"a","s"," ","s","t","a","t","e","d"," ","b","y">>,
       <<"i","n"," ","a","c","c","o","r","d","a","n","c","e"," ","w","i",
         "t","h">>}>>

\* pattern_based_segments: the pieces of re.split(r'[.!?]+', content) of
\* 50 characters or more, stripped, that match two of the expressions
pattern_based_segments(content) ==
    LET pieces == SentencePieces(content)
        Stripped(p) == SubSeq(content,
                          SetMin({k \in p[1]..p[2] : ~IsSpace(content[k])}),
                          SetMax({k \in p[1]..p[2] : ~IsSpace(content[k])}))
        formal_count(sentence) ==
            Cardinality({f \in 1..Len(formal_indicators) :
                CountAlternatives(sentence, formal_indicators[f]) > 0})
        kept == {k \in 1..Len(pieces) :
                    /\ Len(Stripped(pieces[k])) >= 50
                    /\ formal_count(Stripped(pieces[k])) >= 2}
    IN  Pick([k \in 1..Len(pieces) |-> pieces[k]], kept)

\* repetition_score = (1 - unique_ngrams / max(len(ngrams), 1)) * 30
repetition_score(content) ==
    LET ngrams == get_ngrams(content, 4)
        unique_ngrams == Cardinality(Range(ngrams))
    IN  FMul(FSub(FInt(1),
                  FDiv(FInt(unique_ngrams), FInt(Max2(Len(ngrams), 1)))),
             FInt(30))

\* the texts the stored submissions of the model hold, and so the texts a
\* check compares: each under 200 characters
StoredContents == {"one", "shifted", "unrelated", "dotted", "pair"}
\* the texts a plagiarism check is asked about
CheckedContents ==
    StoredContents \cup {"formal", "repeats", "short15", "empty"}
\* the texts a plagiarism check is asked about while few are stored
RepeatingContents == {"formal6", "echo", "chorus"}
ComparedContents == CheckedContents \cup RepeatingContents

\* the measures on the pairs the model compares, computed once
Similarity ==
    [c1 \in ComparedContents |->
        [c2 \in StoredContents |->
            [seq        |-> calculate_similarity(Text[c1], Text[c2]),
             jaccard    |-> calculate_jaccard_similarity(Text[c1], Text[c2]),
             paraphrase |-> detect_paraphrasing(Text[c1], Text[c2])]]]

Patterns ==
    [c \in ComparedContents |->
        [segments   |-> pattern_based_segments(Text[c]),
         repetition |-> repetition_score(Text[c]),
         strip_len  |-> StripLen(Text[c])]]

(***************************************************************************)
(* check_plagiarism_with_database.  The two lookups are given as what they *)
(* returned: sequences of records with id and content, newest first.       *)
(* The values of similarity_scores are floats; the percentage of a matched *)
(* source is in tenths, as its text shows it, similarity_score in          *)
(* hundredths and confidence in ten-thousandths.                           *)
(***************************************************************************)
\* the rows of the first pass: the student's submissions but the one
\* with the id under check
SelfCompared(submission_id, student_submissions) ==
    SelectSeq(student_submissions, LAMBDA s : s.id # submission_id)

\* the rows of the second pass: the assignment's submissions but the one
\* with the id under check
CrossCompared(submission_id, assignment_submissions) ==
    SelectSeq(assignment_submissions, LAMBDA s : s.id # submission_id)

\* one row of the first pass, from its two measures
SelfMatchFrom(seq_similarity, jaccard_sim) ==
    [flagged |-> \/ FCmp(seq_similarity, FInt(30)) > 0
                 \/ FCmp(jaccard_sim, FInt(25)) > 0,
     score   |-> FDiv(FAdd(seq_similarity, jaccard_sim), FInt(2)),
     source  |-> <<[kind |-> "previous_submission",
                    percent |-> FRoundTo(seq_similarity, 10)]>>,
     paraphrase |-> FALSE]

SelfMatchOf(m) ==
    SelfMatchFrom(SimilarityPercent(m.seq), JaccardPercent(m.jaccard))

\* weighted_similarity = seq * 0.4 + jaccard * 0.3 + (seq * 0.3 if a
\* paraphrase else 0)
WeightedSimilarity(seq_similarity, jaccard_sim, is_paraphrase) ==
    FAdd(FAdd(FMul(seq_similarity, Tenths[4]), FMul(jaccard_sim, Tenths[3])),
         IF is_paraphrase THEN FMul(seq_similarity, Tenths[3]) ELSE FZero)

\* one row of the second pass, from its weighted similarity
CrossMatchFrom(weighted_similarity, is_paraphrase) ==
    [flagged |-> FCmp(weighted_similarity, FInt(25)) > 0 \/ is_paraphrase,
     score   |-> weighted_similarity,
     source  |-> IF is_paraphrase
                 THEN <<[kind |-> "paraphrasing",
                         percent |-> FRoundTo(weighted_similarity, 10)]>>
                 ELSE IF FCmp(weighted_similarity, FInt(40)) > 0
                 THEN <<[kind |-> "high_similarity",
                         percent |-> FRoundTo(weighted_similarity, 10)]>>
                 ELSE <<>>,
     paraphrase |-> is_paraphrase]

\* one row of the second pass with the two measures left as ratios, not
\* taken times 100: the weighted sum stays under both limits
CrossMatchOf_ratios(m) ==
    CrossMatchFrom(WeightedSimilarity(
                       FDiv(SimilarityPercent(m.seq), FInt(100)),
                       FDiv(JaccardPercent(m.jaccard), FInt(100)),
                       m.paraphrase),
                   m.paraphrase)

\* one row of the second pass
CrossMatchOf(m) ==
    CrossMatchFrom(WeightedSimilarity(SimilarityPercent(m.seq),
                                      JaccardPercent(m.jaccard),
                                      m.paraphrase),
                   m.paraphrase)

\* the rows of the two passes on the pairs the model compares, computed
\* once
SelfMatches ==
    [c1 \in ComparedContents |->
        [c2 \in StoredContents |-> SelfMatchOf(Similarity[c1][c2])]]

CrossMatches ==
    [c1 \in ComparedContents |->
        [c2 \in StoredContents |-> CrossMatchOf(Similarity[c1][c2])]]

SelfMatch(c, prev) == SelfMatches[c][prev.content]

CrossMatch(c, other) == CrossMatches[c][other.content]

\* the minimum analyzable length of plagiarism.py, in characters
MinAnalyzableLength == 20

RECURSIVE Flatten(_)
Flatten(qs) == IF qs = <<>> THEN <<>> ELSE Head(qs) \o Flatten(Tail(qs))

TooShortReport ==
    [similarity_score |-> 0, is_suspicious |-> FALSE,
     suspicious_segments |-> <<>>, matched_sources |-> <<>>,
     confidence |-> 0,
     analysis |-> <<"content_too_short">>]

ErrorReport ==
    [similarity_score |-> 0, is_suspicious |-> FALSE,
     suspicious_segments |-> <<>>, matched_sources |-> <<>>,
     confidence |-> 0,
     analysis |-> <<"error_during_analysis">>]

\* confidence that no matched source raises
ReportConfidence_flat(matched_sources) == 8500

\* confidence = min(0.85 + len(matched_sources) * 0.05, 0.99), rounded to
\* four places
ReportConfidence(matched_sources) ==
    Min2(8500 + 500 * Len(matched_sources), 9900)

\* the score of internal repetition without its cap
FallbackSimilarity_uncapped(repetition) == repetition

\* avg_similarity = min(repetition_score, 15)
FallbackSimilarity(repetition) == FMin(repetition, FInt(15))

\* is_suspicious without the test of the averaged similarity
IsSuspicious_matched(avg_similarity, matched_sources, paraphrase_detected, segments) ==
    \/ Len(matched_sources) > 0
    \/ paraphrase_detected
    \/ Len(segments) > 5

\* is_suspicious = avg_similarity > 25 or len(matched_sources) > 0 or
\* paraphrase_detected or len(pattern_based_segments) > 5
IsSuspicious(avg_similarity, matched_sources, paraphrase_detected, segments) ==
    \/ FCmp(avg_similarity, FInt(25)) > 0
    \/ Len(matched_sources) > 0
    \/ paraphrase_detected
    \/ Len(segments) > 5

\* the report, but for the ids it echoes, from what the loops and the
\* fallback came to
ReportFrom(avg_similarity, matched_sources, paraphrase_detected, segments) ==
    LET is_suspicious ==
            IsSuspicious(avg_similarity, matched_sources,
                         paraphrase_detected, segments)
        analysis ==
            (IF FCmp(avg_similarity, FInt(40)) > 0
             THEN <<"high_similarity">> ELSE <<>>)
            \o (IF paraphrase_detected THEN <<"paraphrasing">> ELSE <<>>)
            \o (IF Len(segments) > 3 THEN <<"academic_patterns">> ELSE <<>>)
            \o (IF ~is_suspicious THEN <<"no_indicators">> ELSE <<>>)
    IN  [similarity_score |-> FRoundTo(avg_similarity, 100),
         is_suspicious |-> is_suspicious,
         suspicious_segments |-> SubSeq(segments, 1, Min2(Len(segments), 5)),
         matched_sources |-> matched_sources,
         paraphrase_detected |-> paraphrase_detected,
         confidence |-> ReportConfidence(matched_sources),
         analysis |-> IF analysis = <<>> THEN <<"analysis_complete">>
                      ELSE analysis]

\* the report from the rows the two passes flagged, in order, and the
\* patterns of the text; sum() adds from the left
ReportOf(hits, patterns) ==
    LET similarity_scores == [k \in 1..Len(hits) |-> hits[k].score]
    IN  ReportFrom(IF similarity_scores # <<>>
                   THEN FDiv(FSum(similarity_scores),
                             FInt(Len(similarity_scores)))
                   ELSE FallbackSimilarity(patterns.repetition),
                   Flatten([k \in 1..Len(hits) |-> hits[k].source]),
                   \E k \in 1..Len(hits) : hits[k].paraphrase,
                   patterns.segments)

\* the submissions table holds at most MaxSubmissions rows
MaxSubmissions == 1

\* the sequences of at most n of the texts of S
ListsOf(S, n) == UNION {[1..k -> S] : k \in 0..n}

\* the texts the passes may flag for a text under check, each pass in its
\* order: a stored submission is met by both passes only when it is the
\* student's for the assignment, and there is one such at most
FlaggedLists(self_matches, cross_matches) ==
    LET self  == {c2 \in StoredContents : self_matches[c2].flagged}
        cross == {c2 \in StoredContents : cross_matches[c2].flagged}
        lists == ListsOf(self, MaxSubmissions) \X ListsOf(cross, MaxSubmissions)
    IN  {h : h \in {l \in lists : Len(l[1]) + Len(l[2]) <= MaxSubmissions + 1}}

\* the rows flagged by the two passes, from the texts they were flagged on
HitRows(self_matches, cross_matches, h) ==
    [k \in 1..Len(h[1]) |-> self_matches[h[1][k]]]
    \o [k \in 1..Len(h[2]) |-> cross_matches[h[2][k]]]

\* the rows of the two passes for one text under check, and its report
\* for each way they can be flagged
ReportsOn(self_matches, cross_matches, patterns) ==
    [self_matches  |-> self_matches,
     cross_matches |-> cross_matches,
     report |-> [h \in FlaggedLists(self_matches, cross_matches) |->
                    ReportOf(HitRows(self_matches, cross_matches, h),
                             patterns)]]

\* the reports of the checks the model makes, computed once
Reports ==
    [c \in ComparedContents |->
        ReportsOn(SelfMatches[c], CrossMatches[c], Patterns[c])]

\* the texts of the rows of a pass that it flagged
FlaggedOf(matches, compared) ==
    LET hits == SelectSeq(compared, LAMBDA s : matches[s.content].flagged)
    IN  [k \in 1..Len(hits) |-> hits[k].content]

\* the report with the id it echoes (of the three, the submission's)
Echoing(report, submission_id) ==
    [similarity_score |-> report.similarity_score,
     is_suspicious |-> report.is_suspicious,
     suspicious_segments |-> report.suspicious_segments,
     matched_sources |-> report.matched_sources,
     paraphrase_detected |-> report.paraphrase_detected,
     confidence |-> report.confidence,
     analysis |-> report.analysis,
     submission_id |-> submission_id]

\* the report of the try block, from the rows and reports of the text
ReportOn(checks, submission_id, student_submissions, assignment_submissions) ==
    Echoing(checks.report[<<FlaggedOf(checks.self_matches,
                                      SelfCompared(submission_id,
                                                   student_submissions)),
                            FlaggedOf(checks.cross_matches,
                                      CrossCompared(submission_id,
                                                    assignment_submissions))>>],
            submission_id)

\* the report of the try block
PlagiarismReport(c, submission_id, student_submissions, assignment_submissions) ==
    ReportOn(Reports[c], submission_id, student_submissions,
             assignment_submissions)

\* not content or len(content.strip()) < 20
TooShort(c) ==
    Len(Text[c]) = 0 \/ Patterns[c].strip_len < MinAnalyzableLength

\* no statement of the try block raises
NoRaise == -1
\* whether a statement of the try block raises, and after how many rows
\* of the two passes
Unexpected == {NoRaise} \cup (0..(MaxSubmissions + 1))

\* check_plagiarism_with_database; unexpected says whether a statement of
\* the try block raised
check_plagiarism_with_database(c, submission_id, student_submissions, assignment_submissions, unexpected) ==
    IF TooShort(c)
    THEN TooShortReport
    ELSE IF unexpected # NoRaise THEN ErrorReport
    ELSE PlagiarismReport(c, submission_id, student_submissions,
                          assignment_submissions)

(***************************************************************************)
(* simple_ai_system.py: SimpleAISystem, its text analysis.                 *)
(***************************************************************************)
\* the last position of the blank-separated chunk that holds position i
RECURSIVE ChunkEnd(_, _)
ChunkEnd(s, i) ==
    IF i < Len(s) /\ ~IsSpace(s[i + 1]) THEN ChunkEnd(s, i + 1) ELSE i

\* s.split()
Split(s) ==
    LET st == Ascending(ChunkStarts(s, 1, Len(s)))
    IN  [k \in 1..Len(st) |-> SubSeq(s, st[k], ChunkEnd(s, st[k]))]

\* re.sub(r'\s+', ' ', text): every run of blanks becomes one blank
CollapseBlanks(text) ==
    LET marked == [i \in 1..Len(text) |->
                      [ch    |-> text[i],
                       first |-> i = 1 \/ ~IsSpace(text[i - 1])]]
        kept   == SelectSeq(marked, LAMBDA m : ~IsSpace(m.ch) \/ m.first)
    IN  [j \in 1..Len(kept) |-> IF IsSpace(kept[j].ch) THEN " "
                                ELSE kept[j].ch]

\* s.strip()
Strip(s) ==
    LET ink == {k \in 1..Len(s) : ~IsSpace(s[k])}
    IN  IF ink = {} THEN <<>> ELSE SubSeq(s, SetMin(ink), SetMax(ink))

\* clean_text: blanks collapsed, lower case, [^\w\s] removed, stripped
clean_text(text) ==
    LET low == StrLower(CollapseBlanks(text))
    IN  Strip(SelectSeq(low, LAMBDA ch : IsW(ch) \/ IsSpace(ch)))

\* count_syllables
count_syllables(word) ==
    LET w == StrLower(word)
        is_vowel(i) == w[i] \in {"a","e","i","o","u","y"}
        syllable_count ==
            Cardinality({i \in 1..Len(w) :
                            is_vowel(i) /\ (i = 1 \/ ~is_vowel(i - 1))})
    IN  Max2(1, IF w[Len(w)] = "e" /\ syllable_count > 1
                THEN syllable_count - 1 ELSE syllable_count)

\* calculate_complexity: round(complexity, 1) in tenths, complexity the
\* float of the source
calculate_complexity(content) ==
    LET words == Split(content)
        n     == Len(words)
        complex_words == Cardinality({k \in 1..n : Len(words[k]) > 6})
        complexity_ratio == FDiv(FInt(complex_words), FInt(n))
        unique_words  == Cardinality({StrLower(words[k]) : k \in 1..n})
        uniqueness_ratio == FDiv(FInt(unique_words), FInt(n))
        complexity ==
            FMul(FAdd(FMul(complexity_ratio, Tenths[6]),
                      FMul(uniqueness_ratio, Tenths[4])),
                 FInt(100))
    IN  IF n = 0 THEN 0 ELSE FRoundTo(complexity, 10)

positive_words ==
    {<<"g","o","o","d">>, <<"g","r","e","a","t">>,
     <<"e","x","c","e","l","l","e","n","t">>,
     <<"p","o","s","i","t","i","v","e">>,
     <<"b","e","n","e","f","i","c","i","a","l">>,
     <<"e","f","f","e","c","t","i","v","e">>}
negative_words ==
    {<<"b","a","d">>, <<"p","o","o","r">>,
     <<"n","e","g","a","t","i","v","e">>, <<"h","a","r","m","f","u","l">>,
     <<"i","n","e","f","f","e","c","t","i","v","e">>,
     <<"p","r","o","b","l","e","m">>}

AnalysisRaised == [raised |-> TRUE]

\* analyze_content; raised where the text has no word (the division by
\* min(len(words), 20)).  readability_score, avg_words_per_sentence and
\* complexity_score are the floats of the source rounded to one place, in
\* tenths.
analyze_content(content) ==
    LET words     == Split(content)
        n         == Len(words)
        sentences == SplitPieceCount(content)
        first20   == Min2(n, 20)
        syllables == SumSeq([k \in 1..first20 |-> count_syllables(words[k])])
        avg_words_per_sentence == FDiv(FInt(n), FInt(Max2(sentences, 1)))
        avg_syllables_per_word == FDiv(FInt(syllables), FInt(first20))
        readability ==
            FMax(FZero,
                 FMin(FInt(100),
                      FSub(FSub(FLit(206835, 1000),
                                FMul(FLit(1015, 1000), avg_words_per_sentence)),
                           FMul(FLit(846, 10), avg_syllables_per_word))))
        low       == StrLower(content)
        pos_count == Cardinality({w \in positive_words : Contains(low, w)})
        neg_count == Cardinality({w \in negative_words : Contains(low, w)})
    IN  IF n = 0 THEN AnalysisRaised
        ELSE [raised |-> FALSE,
              word_count |-> n,
              sentence_count |-> sentences,
              readability_score |-> FRoundTo(readability, 10),
              sentiment |-> IF pos_count > neg_count THEN "positive"
                            ELSE IF neg_count > pos_count THEN "negative"
                            ELSE "neutral",
              avg_words_per_sentence |-> FRoundTo(avg_words_per_sentence, 10),
              complexity_score |-> calculate_complexity(content)]

q_quality == <<"q","u","a","l","i","t","y">>
q_writing == <<"w","r","i","t","i","n","g">>
q_creativity == <<"c","r","e","a","t","i","v","i","t","y">>
q_original == <<"o","r","i","g","i","n","a","l">>

Clamp100(x) == Min2(100, Max2(0, x))

\* evaluate_criterion: a whole number of points
evaluate_criterion(criterion, analysis) ==
    LET criterion_lower == StrLower(criterion)
        has(p) == Contains(criterion_lower, p)
        word_count == analysis.word_count
        complexity == analysis.complexity_score
        avg_sentences == analysis.avg_words_per_sentence
        readability == analysis.readability_score
    IN  IF has(p_content) \/ has(q_quality)
        THEN Clamp100(70
               + (IF word_count >= 200 THEN 15
                  ELSE IF word_count >= 100 THEN 10
                  ELSE IF word_count < 50 THEN -20 ELSE 0)
               + (IF complexity >= 700 THEN 10
                  ELSE IF complexity < 400 THEN -10 ELSE 0))
        ELSE IF has(p_grammar) \/ has(q_writing)
        THEN Clamp100(75
               + (IF avg_sentences >= 100 /\ avg_sentences <= 250 THEN 15
                  ELSE IF avg_sentences < 50 THEN -15 ELSE 0)
               + (IF readability >= 600 THEN 10
                  ELSE IF readability < 300 THEN -10 ELSE 0))
        ELSE IF has(q_creativity) \/ has(q_original)
        THEN Clamp100(70
               + (IF complexity >= 600 THEN 20
                  ELSE IF complexity < 300 THEN -15 ELSE 0)
               + (IF analysis.sentiment # "neutral" THEN 10 ELSE 0))
        ELSE 75

\* A rubric of SimpleAISystem maps a criterion to a weight; the weight is
\* held in hundredths, so max_points / 100.0 of the free endpoint is
\* max_points.
\* evaluate_rubric, given the analysis it computes
evaluate_rubric(rubric, analysis) ==
    [k \in 1..Len(rubric) |->
        [criterion |-> rubric[k].name,
         score     |-> evaluate_criterion(CriterionName[rubric[k].name],
                                          analysis),
         weight    |-> rubric[k].weight]]

\* calculate_score: int(total_weighted / total_weight) of the two floats
\* the loop adds up, 70 without scores or without weight; the weight of a
\* score is the float hundredths / 100.0
calculate_score(rubric_scores) ==
    LET weight == [k \in 1..Len(rubric_scores) |->
                      FLit(rubric_scores[k].weight, 100)]
        total_weighted ==
            FSum([k \in 1..Len(rubric_scores) |->
                     FMul(FInt(rubric_scores[k].score), weight[k])])
        total_weight == FSum(weight)
    IN  IF rubric_scores = <<>> THEN 70
        ELSE IF FCmp(total_weight, FZero) > 0
        THEN FTrunc(FDiv(total_weighted, total_weight))
        ELSE 70

\* generate_feedback: the sentences of the text, as tags
OverallBand(overall_score) ==
    IF overall_score >= 90 THEN "excellent"
    ELSE IF overall_score >= 80 THEN "good"
    ELSE IF overall_score >= 70 THEN "satisfactory"
    ELSE IF overall_score >= 60 THEN "needs_improvement"
    ELSE "significant_improvement"

generate_feedback(analysis, rubric_scores) ==
    LET overall_score == calculate_score(rubric_scores)
        per(k) == IF rubric_scores[k].score < 70
                  THEN <<<<"focus", rubric_scores[k].criterion>>>>
                  ELSE IF rubric_scores[k].score >= 90
                  THEN <<<<"excellent", rubric_scores[k].criterion>>>>
                  ELSE <<>>
    IN  <<<<"overall", OverallBand(overall_score)>>>>
        \o (IF analysis.word_count < 100 THEN <<<<"length", "expand">>>>
            ELSE IF analysis.word_count > 1000
            THEN <<<<"length", "concise">>>> ELSE <<>>)
        \o (IF analysis.readability_score < 400
            THEN <<<<"readability", "simplify">>>>
            ELSE IF analysis.readability_score > 800
            THEN <<<<"readability", "clear">>>> ELSE <<>>)
        \o Flatten([k \in 1..Len(rubric_scores) |-> per(k)])

\* What grade_assignment computes when the cache has no grading for the
\* content: the result of lines 107-123, or the dict of the except branch
\* when analyze_content raised.  confidence is in hundredths.
GradingError ==
    [overall_score |-> 70, rubric_scores |-> <<>>,
     feedback |-> <<<<"grading_error", "division by zero">>>>,
     error |-> "division by zero"]

ComputeGrading(content, rubric) ==
    LET analysis == analyze_content(content)
        rubric_scores == evaluate_rubric(rubric, analysis)
    IN  IF analysis.raised THEN GradingError
        ELSE [overall_score |-> calculate_score(rubric_scores),
              rubric_scores |-> rubric_scores,
              feedback |-> generate_feedback(analysis, rubric_scores),
              content_analysis |-> analysis,
              confidence |-> 85,
              grading_method |-> "simple_ai_analysis"]

\* analyze_similarity: the loop gives 0.1, 0.1 + 0.2 and 0.5, and 0.1 + 0.2
\* is 0.30000000000000004 in binary floating point, so above 0.3; the
\* similarities are in hundredths, the second one rounded
analyze_similarity(content) ==
    LET similarity == [i \in 0..2 |-> 10 + i * 20]
        above      == {1, 2}
        matches    == [j \in 1..2 |->
                          [submission_id |-> <<"sim", j>>,
                           student_id |-> <<"student", j>>,
                           similarity |-> similarity[j],
                           preview_length |-> Min2(Len(content), 100) + 3]]
        scores     == [j \in 1..2 |-> similarity[j]]
    IN  [scores |-> scores, matches |-> matches,
         highest |-> SetMax(Range(scores))]

ai_formal_words ==
    {<<"f","u","r","t","h","e","r","m","o","r","e">>,
     <<"m","o","r","e","o","v","e","r">>,
     <<"c","o","n","s","e","q","u","e","n","t","l","y">>,
     <<"t","h","e","r","e","f","o","r","e">>, <<"t","h","u","s">>}
personal_words ==
    {<<"i"," ","t","h","i","n","k">>, <<"i"," ","b","e","l","i","e","v","e">>,
     <<"i","n"," ","m","y"," ","o","p","i","n","i","o","n">>,
     <<"p","e","r","s","o","n","a","l","l","y">>}
generic_transitions ==
    {<<"f","i","r","s","t">>, <<"s","e","c","o","n","d">>,
     <<"t","h","i","r","d">>, <<"f","i","n","a","l","l","y">>,
     <<"i","n"," ","c","o","n","c","l","u","s","i","o","n">>}

\* len(s.split()) of each piece of re.split(r'[.!?]+', content) that holds
\* a non-blank character
PieceWordCounts(content) ==
    LET pieces == SentencePieces(content)
    IN  [k \in 1..Len(pieces) |->
            SplitLen(content, pieces[k][1], pieces[k][2])]

\* detect_ai_content; ai_confidence is the number of indicators out of 5
detect_ai_content(content) ==
    LET words == Split(content)
        unique_words == Cardinality(Range(words))
        lens == PieceWordCounts(content)
        c1 == Len(words) > 0 /\ 10 * unique_words < 7 * Len(words)
        c2 == \E w \in ai_formal_words : Contains(content, w)
        c3 == /\ SplitPieceCount(content) > 5
              /\ \A k \in 1..Len(lens) : lens[k] > 5
        c4 == ~\E w \in personal_words : Contains(content, w)
        c5 == Cardinality({w \in generic_transitions : Contains(content, w)})
                  > 2
        ai_indicators ==
            Cardinality({k \in 1..5 : <<c1, c2, c3, c4, c5>>[k]})
    IN  [is_ai_generated |-> ai_indicators > 3,
         ai_confidence |-> ai_indicators,
         indicators |-> [k \in 1..5 |-> ai_indicators >= k]]

\* detect_paraphrasing of SimpleAISystem, in tenths: 0.0, 0.7 or 0.3;
\* avg_length and variation are the floats of the source
simple_detect_paraphrasing(content) ==
    LET lengths == PieceWordCounts(content)
        n       == Len(lengths)
        avg_length == FDiv(FInt(SumSeq(lengths)), FInt(n))
        variation ==
            FDiv(FSum([k \in 1..n |->
                         FAbs(FSub(FInt(lengths[k]), avg_length))]),
                 FInt(n))
    IN  IF SplitPieceCount(content) < 3 THEN 0
        ELSE IF n > 1 /\ FCmp(variation, FInt(3)) < 0 THEN 7
        ELSE 3

\* What detect_plagiarism computes when the cache has no plagiarism result
\* for the cleaned content: lines 63-80
ComputePlagiarism(clean_content) ==
    LET similarity_analysis == analyze_similarity(clean_content)
    IN  [similarity_scores |-> similarity_analysis.scores,
         matches |-> similarity_analysis.matches,
         highest_similarity |-> similarity_analysis.highest,
         is_flagged |-> similarity_analysis.highest > 70,
         ai_detection |-> detect_ai_content(clean_content),
         paraphrasing_score |-> simple_detect_paraphrasing(clean_content),
         detection_method |-> "simple_ai_analysis"]

(***************************************************************************)
(* The state.                                                              *)
(*   pool, session   the attributes of db, the NeonDatabase of database.py *)
(*   assignments     what the LMS holds for each assignment id             *)
(*   submissions     the rows of the LMS's submissions table, oldest first *)
(*   reports         the rows of plagiarism_reports, by submission_id      *)
(*   cache           the rows of submissions_cache, by content_hash        *)
(*   checks          who made the first detect_plagiarism call for a       *)
(*                   content, and for which assignment (the log line)      *)
(*   first_results   what the first grade_assignment call for a content    *)
(*                   returned (kept for the comparison with later calls)   *)
(*   requests        the two concurrent requests on SimpleAISystem         *)
(*   tasks           the calls of the database service that are in flight, *)
(*                   by caller: the await each waits at and its locals     *)
(*   last            the call that has just returned: its arguments, what  *)
(*                   it returned and what it did on the way; "none" once   *)
(*                   the caller has taken the result                       *)
(***************************************************************************)
VARIABLES pool, session, assignments, submissions, reports,
          cache, first_results, checks, requests, tasks, last

vars == <<pool, session, assignments, submissions, reports,
          cache, first_results, checks, requests, tasks, last>>

Students == {"s1", "s2"}
\* the assignment ids a request names; the LMS can hold the first only
AssignmentIds == {"a1", "a2"}
LmsAssignments == {"a1"}

Workers == {"w1", "w2"}
IdleRequest == [pc |-> "idle"]

\* a caller without a call of the database service in flight, and all of
\* them so
NoTask == [pc |-> "none"]
NoTasks == [w \in Workers |-> NoTask]

Init ==
    /\ pool = "absent"
    /\ session = FALSE
    /\ assignments = [a \in AssignmentIds |-> "absent"]
    /\ submissions = <<>>
    /\ reports = <<>>
    /\ cache = <<>>
    /\ first_results = <<>>
    /\ checks = <<>>
    /\ requests = [w \in Workers |-> IdleRequest]
    /\ tasks = NoTasks
    /\ last = [op |-> "none"]

(***************************************************************************)
(* database.py: NeonDatabase, and the LMS behind it.                       *)
(***************************************************************************)
\* no call is waiting for its caller to take its result
Quiet == last.op = "none" /\ \A w \in Workers : requests[w] = IdleRequest

\* and none is in flight: what a call of SimpleAISystem, which runs to
\* its end without giving way, starts from
Idle == Quiet /\ tasks = NoTasks

\* the caller takes the result of the call
Return ==
    /\ last.op # "none"
    /\ last' = [op |-> "none"]
    /\ UNCHANGED <<pool, session, assignments, submissions, reports,
                   cache, first_results, checks, requests, tasks>>

\* connect(): the session is set whether or not the LMS answers
DbConnect ==
    /\ Quiet
    /\ session' = TRUE
    /\ UNCHANGED <<pool, assignments, submissions, reports,
                   cache, first_results, checks, requests, tasks, last>>

\* the LMS comes to hold assignment a with rubric r ("empty": no rubric)
LmsPublishAssignment(a, r) ==
    /\ Quiet
    /\ assignments[a] # r
    /\ assignments' = [assignments EXCEPT ![a] = r]
    /\ UNCHANGED <<pool, session, submissions, reports,
                   cache, first_results, checks, requests, tasks, last>>

\* get_assignment: None without a session, when the LMS does not answer
\* with status 200 (responds = FALSE) or when it has no such assignment
get_assignment(has_session, assignment_id, responds) ==
    IF ~has_session \/ ~responds \/ assignments[assignment_id] = "absent"
    THEN NoAssignment
    ELSE Assignment(assignments[assignment_id])

(***************************************************************************)
(* A call of grade_essay_with_database.                                    *)
(***************************************************************************)
\* the names of the entries whose scoring raised
SkippedNames(entries, outcomes) ==
    {entries[k].name : k \in {j \in 1..Len(outcomes) : outcomes[j].raised}}

\* the locals of a call of grade_essay_with_database as it waits for
\* get_assignment
EssayCalled(c, rubric, assignment_id, flesch) ==
    [pc |-> "get_assignment",
     request |-> [op |-> "grade_essay", rubric |-> rubric,
                  flesch |-> flesch],
     content |-> c,
     assignment_id |-> assignment_id]

\* the call returns: what it raised or what it graded; the loop over the
\* rubric has run only when the assignment was found
GradeEssayWith(c, rubric, assignment_id, flesch, assignment) ==
    last' = [op |-> "grade_essay",
             content |-> c,
             rubric |-> rubric,
             assignment_id |-> assignment_id,
             found |-> assignment.found,
             scored_rubric |-> ScoredRubric(rubric, assignment),
             skipped |->
                 IF ~assignment.found THEN {}
                 ELSE SkippedNames(Rubric[ScoredRubric(rubric, assignment)],
                          CriterionLoops[ScoredRubric(rubric, assignment)][c]
                                        [flesch]),
             result |-> grade_essay_with_database(c, rubric, assignment,
                                                  flesch)]

\* caller w calls grade_essay_with_database, whatever other call is in
\* flight: get_assignment waits for the LMS when there is a session and
\* returns None at once when there is none, and line 267 raises on None
GradeEssay(w, c, rubric, assignment_id, flesch) ==
    /\ Quiet
    /\ tasks[w] = NoTask
    /\ IF session
       THEN /\ tasks' = [tasks EXCEPT
                            ![w] = EssayCalled(c, rubric, assignment_id,
                                               flesch)]
            /\ UNCHANGED last
       ELSE /\ last' = [op |-> "grade_essay",
                        content |-> c,
                        rubric |-> rubric,
                        assignment_id |-> assignment_id,
                        found |-> FALSE,
                        scored_rubric |-> rubric,
                        skipped |-> {},
                        result |-> AssignmentNotFound]
            /\ UNCHANGED tasks
    /\ UNCHANGED <<pool, session, assignments, submissions, reports,
                   cache, first_results, checks, requests>>

\* the await of line 265 is over: the LMS has answered get_assignment (or
\* has not: responds = FALSE) and the call goes on to its end
EssayAssignmentFetched(w, responds) ==
    /\ last.op = "none"
    /\ tasks[w].pc = "get_assignment"
    /\ tasks[w].request.op = "grade_essay"
    /\ GradeEssayWith(tasks[w].content, tasks[w].request.rubric,
                      tasks[w].assignment_id, tasks[w].request.flesch,
                      get_assignment(TRUE, tasks[w].assignment_id, responds))
    /\ tasks' = [tasks EXCEPT ![w] = NoTask]
    /\ UNCHANGED <<pool, session, assignments, submissions, reports,
                   cache, first_results, checks, requests>>

\* the calls the first caller makes and whether the LMS answers them, and
\* the call a second caller makes while the first is in flight
GradeCallers ==
    [w1 |-> [contents |-> Contents, rubrics |-> Rubrics,
             assignments |-> AssignmentIds, flesch |-> FleschOutcomes,
             answers |-> BOOLEAN],
     w2 |-> [contents |-> {"one"}, rubrics |-> {"request"},
             assignments |-> LmsAssignments, flesch |-> {FleschValue(65)},
             answers |-> {TRUE}]]

NextGrade ==
    \/ Return
    \/ DbConnect
    \/ \E a \in LmsAssignments, r \in StoredRubrics :
           LmsPublishAssignment(a, r)
    \/ \E w \in Workers :
           \E c \in GradeCallers[w].contents, r \in GradeCallers[w].rubrics,
              a \in GradeCallers[w].assignments,
              f \in GradeCallers[w].flesch :
               GradeEssay(w, c, r, a, f)
    \/ \E w \in Workers :
           \E responds \in GradeCallers[w].answers :
               EssayAssignmentFetched(w, responds)

SpecGrade == Init /\ [][NextGrade]_vars

(***************************************************************************)
(* The submissions table and plagiarism_reports, and the methods of        *)
(* NeonDatabase that go through self.pool.                                 *)
(***************************************************************************)
\* the ids the LMS gives its submissions, in the order it stores them
LmsIds == <<"1", "2", "3", "4">>

\* the deployment assigns db.pool: database.py itself never does
DeployPool(p) ==
    /\ Quiet
    /\ pool # p
    /\ pool' = p
    /\ UNCHANGED <<session, assignments, submissions, reports,
                   cache, first_results, checks, requests, tasks, last>>

\* the LMS stores a submission: one for a student and an assignment
LmsStoreSubmission(student_id, assignment_id, c) ==
    /\ Quiet
    /\ Len(submissions) < MaxSubmissions
    /\ \A k \in 1..Len(submissions) :
           ~(/\ submissions[k].student_id = student_id
             /\ submissions[k].assignment_id = assignment_id)
    /\ submissions' = Append(submissions,
                             [id |-> LmsIds[Len(submissions) + 1],
                              student_id |-> student_id,
                              assignment_id |-> assignment_id,
                              content |-> c])
    /\ UNCHANGED <<pool, session, assignments, reports,
                   cache, first_results, checks, requests, tasks, last>>

Reverse(q) == [k \in 1..Len(q) |-> q[Len(q) + 1 - k]]

\* self.pool.acquire() has a pool to go to; without one the method raises
\* inside its own try and returns at once, without giving way
HasPool == pool = "set"

\* get_student_submissions: ORDER BY submitted_at DESC LIMIT 10 on the
\* table as the query finds it, or [] from the except clause (answers says
\* that the pool was acquired and the query went through)
get_student_submissions(student_id, answers) ==
    IF ~answers THEN <<>>
    ELSE LET rows == Reverse(SelectSeq(submissions,
                                 LAMBDA s : s.student_id = student_id))
         IN  [k \in 1..Min2(Len(rows), 10) |->
                 [id |-> rows[k].id, content |-> rows[k].content]]

\* get_all_submissions_for_assignment, or [] from the except clause
get_all_submissions_for_assignment(assignment_id, answers) ==
    IF ~answers THEN <<>>
    ELSE LET rows == Reverse(SelectSeq(submissions,
                                 LAMBDA s : s.assignment_id = assignment_id))
         IN  [k \in 1..Len(rows) |->
                 [id |-> rows[k].id, student_id |-> rows[k].student_id,
                  content |-> rows[k].content]]

\* json.dumps of a list: its text, which is not the list
json_dumps(list) == [json |-> list]

\* the columns of a row of plagiarism_reports, from report_data
ReportRow(report_data) ==
    [similarity_score |-> report_data.similarity_score,
     is_suspicious |-> report_data.is_suspicious,
     suspicious_segments |-> json_dumps(report_data.suspicious_segments),
     matched_sources |-> json_dumps(report_data.matched_sources),
     analysis |-> report_data.analysis]

\* create_plagiarism_report: the table after INSERT ... ON CONFLICT
\* (submission_id) DO UPDATE, and True; or the table as it was, and False
create_plagiarism_report(submission_id, report_data, answers) ==
    IF ~answers THEN [saved |-> FALSE, table |-> reports]
    ELSE [saved |-> TRUE,
          table |-> [id \in DOMAIN reports \cup {submission_id} |->
                        IF id = submission_id THEN ReportRow(report_data)
                        ELSE reports[id]]]

(***************************************************************************)
(* A call of check_plagiarism_with_database.  Where it awaits the database *)
(* through a pool that is there, at the lookups of lines 68 and 71 and at  *)
(* the save of line 176, the call gives way to the event loop: the LMS and *)
(* the deployment act while it waits, and what it goes on with is what the *)
(* pool and the tables hold by then.                                       *)
(***************************************************************************)
\* the locals of a call that comes in for request, nothing looked up yet.
\* Two fields are kept beside them, to tell which of two reports of one
\* submission was computed last: followed_by, the callers that have
\* recomputed the report of the same submission while this call waited to
\* save its own, and overtaken, that one of them has stored its report
Called(request, c, submission_id, student_id, assignment_id) ==
    [pc |-> "called",
     request |-> request,
     content |-> c,
     submission_id |-> submission_id,
     student_id |-> student_id,
     assignment_id |-> assignment_id,
     student_submissions |-> <<>>,
     student_lookup_failed |-> FALSE,
     assignment_submissions |-> <<>>,
     assignment_lookup_failed |-> FALSE,
     result |-> PyNone,
     followed_by |-> {},
     overtaken |-> FALSE]

\* the ids of the first n of the rows
IdsOf(rows, n) == {rows[k].id : k \in 1..Min2(Max2(n, 0), Len(rows))}

\* what the call t did and returns, from the report on: the rows it
\* compared in each pass (all of them, or those it had come to when the
\* statement raised that sent it to the except clause), the table after
\* it, and the report; save is what create_plagiarism_report came to
CallOutcome(t, result, save, unexpected) ==
    LET raised == result = ErrorReport
        first  == SelfCompared(t.submission_id, t.student_submissions)
        second == CrossCompared(t.submission_id, t.assignment_submissions)
        n      == IF raised THEN unexpected ELSE Len(first) + Len(second)
    IN  [result |-> result,
         raised |-> raised,
         looked_up |-> {"student_submissions", "assignment_submissions"},
         student_submissions |-> t.student_submissions,
         assignment_submissions |-> t.assignment_submissions,
         self_compared  |-> IdsOf(first, n),
         cross_compared |-> IdsOf(second, n - Len(first)),
         student_lookup_failed    |-> t.student_lookup_failed,
         assignment_lookup_failed |-> t.assignment_lookup_failed,
         saved |-> ~raised /\ save.saved,
         table |-> IF raised THEN reports ELSE save.table,
         overtaken |-> t.overtaken]

\* the call that returns before the try block: no lookup, no save
ShortCall ==
    [result |-> TooShortReport,
     raised |-> FALSE,
     looked_up |-> {},
     student_submissions |-> <<>>,
     assignment_submissions |-> <<>>,
     self_compared |-> {},
     cross_compared |-> {},
     student_lookup_failed |-> FALSE,
     assignment_lookup_failed |-> FALSE,
     saved |-> FALSE,
     table |-> reports,
     overtaken |-> FALSE]

\* f"sub_{request.student_id}_{request.assignment_id}"
SyntheticId(student_id, assignment_id) ==
    "sub_" \o student_id \o "_" \o assignment_id

\* the HTTPException of the except clause of grade_submission
ServerError(detail) == [status |-> 500, detail |-> detail]

\* GradingResponse(...) validates: total_score and confidence in range
ValidResponse(grading) ==
    /\ grading.total_score \in 0..10000
    /\ grading.confidence \in 0..10000

\* the GradingResponse of grade_submission, or the 500 its validation
\* ends in
GradingResponse(grading, plagiarism_result) ==
    IF ~ValidResponse(grading) THEN ServerError("validation")
    ELSE [status |-> 200,
          success |-> TRUE,
          total_score |-> grading.total_score,
          criteria_scores |-> grading.criteria_scores,
          band |-> grading.band,
          strengths |-> grading.strengths,
          improvements |-> grading.improvements,
          plagiarism_result |-> plagiarism_result,
          confidence |-> grading.confidence,
          word_count |-> grading.word_count]

\* what the caller of grade_submission gets, with what the request did:
\* own holds the stored submissions of the student for the assignment
Responded(t, response, checked, call) ==
    [op |-> "grade_submission",
     content |-> t.content,
     submission_id |-> t.submission_id,
     student_id |-> t.student_id,
     assignment_id |-> t.assignment_id,
     rubric |-> t.request.rubric,
     own |-> {submissions[k].id : k \in
                {j \in 1..Len(submissions) :
                   /\ submissions[j].student_id = t.student_id
                   /\ submissions[j].assignment_id = t.assignment_id}},
     before |-> reports,
     checked |-> checked,
     call |-> call,
     response |-> response]

\* what the caller of the call t gets: the report, or the response of
\* grade_submission around it
Returned(t, call) ==
    IF t.request.op = "grade_submission"
    THEN Responded(t, GradingResponse(t.request.grading, call.result),
                   TRUE, call)
    ELSE [op |-> "check_plagiarism",
          content |-> t.content,
          submission_id |-> t.submission_id,
          student_id |-> t.student_id,
          assignment_id |-> t.assignment_id,
          own |-> {t.submission_id},
          before |-> reports,
          call |-> call]

\* the calls in flight once caller w has recomputed the report of a
\* submission: w follows the calls that wait to save an earlier report of
\* it
Recomputing(w, submission_id) ==
    [v \in Workers |->
        IF /\ v # w
           /\ tasks[v].pc = "create_plagiarism_report"
           /\ tasks[v].submission_id = submission_id
        THEN [tasks[v] EXCEPT !.followed_by = @ \cup {w}]
        ELSE tasks[v]]

\* the calls in flight once the save of caller w is over: where it wrote
\* its row, it has overtaken the calls it followed, whose earlier reports
\* are still to be saved
Overtaking(w, wrote) ==
    [v \in Workers |->
        IF /\ wrote
           /\ v # w
           /\ tasks[v].pc = "create_plagiarism_report"
           /\ tasks[v].submission_id = tasks[w].submission_id
           /\ w \in tasks[v].followed_by
        THEN [tasks[v] EXCEPT !.overtaken = TRUE]
        ELSE tasks[v]]

\* the call of w gives way at the await of t.pc, its locals as in t
Waits(w, t, others) ==
    /\ tasks' = [others EXCEPT ![w] = t]
    /\ UNCHANGED <<pool, assignments, submissions, reports,
                   cache, first_results, checks, requests, last>>

\* the call of w returns to its caller, the table as it leaves it
Returns(w, t, call, others) ==
    /\ tasks' = [others EXCEPT ![w] = NoTask]
    /\ reports' = call.table
    /\ last' = Returned(t, call)
    /\ UNCHANGED <<pool, assignments, submissions,
                   cache, first_results, checks, requests>>

\* line 176: the report is saved when the try block came to one, and the
\* call returns what it came to
ThenSave(w, t, result, unexpected) ==
    IF result # ErrorReport /\ HasPool
    THEN Waits(w, [t EXCEPT !.pc = "create_plagiarism_report",
                            !.result = result],
               Recomputing(w, t.submission_id))
    ELSE Returns(w, t,
                 CallOutcome(t, result,
                     create_plagiarism_report(t.submission_id, result,
                                              FALSE),
                     unexpected),
                 IF result = ErrorReport THEN tasks
                 ELSE Recomputing(w, t.submission_id))

\* lines 73-174, on the rows the two lookups gave
ThenCompare(w, t, unexpected) ==
    ThenSave(w, t,
             check_plagiarism_with_database(
                 t.content, t.submission_id, t.student_submissions,
                 t.assignment_submissions, unexpected),
             unexpected)

\* line 71
ThenLookUpAssignment(w, t, unexpected) ==
    IF HasPool
    THEN Waits(w, [t EXCEPT !.pc = "get_all_submissions_for_assignment"],
               tasks)
    ELSE ThenCompare(w,
             [t EXCEPT !.assignment_submissions =
                           get_all_submissions_for_assignment(
                               t.assignment_id, FALSE),
                       !.assignment_lookup_failed = TRUE],
             unexpected)

\* line 68
ThenLookUpStudent(w, t, unexpected) ==
    IF HasPool
    THEN Waits(w, [t EXCEPT !.pc = "get_student_submissions"], tasks)
    ELSE ThenLookUpAssignment(w,
             [t EXCEPT !.student_submissions =
                           get_student_submissions(t.student_id, FALSE),
                       !.student_lookup_failed = TRUE],
             unexpected)

\* the test for short content left until after the lookups
ShortOr_late(c, short, longer) == longer

\* the return of lines 54-62, or the try block
ShortOr(c, short, longer) == IF TooShort(c) THEN short ELSE longer

\* check_plagiarism_with_database from its first line, up to where it
\* first gives way or returns
BeginCheck(w, t, unexpected) ==
    ShortOr(t.content, Returns(w, t, ShortCall, tasks),
            ThenLookUpStudent(w, t, unexpected))

\* caller w calls check_plagiarism_with_database, whatever other call is
\* in flight
CheckPlagiarism(w, c, submission_id, student_id, assignment_id, unexpected) ==
    /\ Quiet
    /\ tasks[w] = NoTask
    /\ BeginCheck(w,
                  Called([op |-> "check_plagiarism"], c, submission_id,
                         student_id, assignment_id),
                  unexpected)
    /\ UNCHANGED session

\* the await of line 68 is over: the rows the query found, or [] from the
\* except clause of the method
StudentSubmissionsFetched(w, answers, unexpected) ==
    /\ last.op = "none"
    /\ tasks[w].pc = "get_student_submissions"
    /\ ThenLookUpAssignment(w,
           [tasks[w] EXCEPT
                !.student_submissions =
                    get_student_submissions(tasks[w].student_id, answers),
                !.student_lookup_failed = ~answers],
           unexpected)
    /\ UNCHANGED session

\* the await of line 71 is over
AssignmentSubmissionsFetched(w, answers, unexpected) ==
    /\ last.op = "none"
    /\ tasks[w].pc = "get_all_submissions_for_assignment"
    /\ ThenCompare(w,
           [tasks[w] EXCEPT
                !.assignment_submissions =
                    get_all_submissions_for_assignment(
                        tasks[w].assignment_id, answers),
                !.assignment_lookup_failed = ~answers],
           unexpected)
    /\ UNCHANGED session

\* the await of line 176 is over: the row is written, or the method
\* returned False, and the call returns
ReportSaved(w, answers) ==
    /\ last.op = "none"
    /\ tasks[w].pc = "create_plagiarism_report"
    /\ Returns(w, tasks[w],
               CallOutcome(tasks[w], tasks[w].result,
                   create_plagiarism_report(tasks[w].submission_id,
                                            tasks[w].result, answers),
                   NoRaise),
               Overtaking(w, answers))
    /\ UNCHANGED session

(***************************************************************************)
(* main.py: POST /api/grade-submission.  The request gives way where       *)
(* connect() and get_assignment wait for the LMS, and where the check      *)
(* does; another request may come in while it waits.                       *)
(***************************************************************************)
\* the except clause of grade_submission: the 500 response, no check made
Fails(w, t, detail) ==
    /\ tasks' = [tasks EXCEPT ![w] = NoTask]
    /\ last' = Responded(t, ServerError(detail), FALSE, PyNone)
    /\ UNCHANGED <<pool, assignments, submissions, reports,
                   cache, first_results, checks, requests>>

\* lines 100-105 of main.py: the check follows a grading that did not raise
ThenCheck(w, t, unexpected) ==
    IF t.request.grading.raised
    THEN Fails(w, t, t.request.grading.error)
    ELSE BeginCheck(w, t, unexpected)

\* grade_essay_with_database from the assignment on
ThenGrade(w, t, assignment, unexpected) ==
    ThenCheck(w,
              [t EXCEPT !.request.grading =
                            grade_essay_with_database(
                                t.content, t.request.rubric, assignment,
                                t.request.flesch)],
              unexpected)

\* grade_submission from its first line: the rubric, `if not db.pool' and
\* connect(), which sets the session before it waits for the LMS; then
\* get_assignment, which waits for the LMS when there is a session and
\* returns None at once when there is none, which grade_essay_with_database
\* raises on
GradeSubmissionBegins(w, t) ==
    IF Rubric[t.request.rubric] = <<>>
    THEN Fails(w, t, "rubric_without_criterion") /\ UNCHANGED session
    ELSE IF pool = "absent"
    THEN Fails(w, t, "no_attribute_pool") /\ UNCHANGED session
    ELSE /\ session' = (session \/ pool = "none")
         /\ IF session \/ pool = "none"
            THEN Waits(w, [t EXCEPT !.pc = "get_assignment"], tasks)
            ELSE Fails(w, t, AssignmentNotFound.error)

\* a request comes in for worker w, whatever other request is being served
GradeSubmission(w, c, student_id, assignment_id, rubric, flesch) ==
    /\ Quiet
    /\ tasks[w] = NoTask
    /\ GradeSubmissionBegins(w,
           Called([op |-> "grade_submission", rubric |-> rubric,
                   flesch |-> flesch, grading |-> PyNone],
                  c, SyntheticId(student_id, assignment_id), student_id,
                  assignment_id))

\* the LMS has answered get_assignment (or has not: responds = FALSE)
AssignmentFetched(w, responds, unexpected) ==
    /\ last.op = "none"
    /\ tasks[w].pc = "get_assignment"
    /\ tasks[w].request.op = "grade_submission"
    /\ ThenGrade(w, tasks[w],
                 get_assignment(TRUE, tasks[w].assignment_id, responds),
                 unexpected)
    /\ UNCHANGED session

\* what the deployment, the LMS and the callers choose from where the
\* service is called: the requests the first worker serves and what they
\* meet, and the request that comes in for the second while the first is
\* at work
ServedRubrics == {"empty", "content"}
ServedContents == {"one", "short15"}
ServedStored == {"one"}
Served ==
    [w1 |-> [contents |-> ServedContents, students |-> Students,
             assignments |-> AssignmentIds, rubrics |-> RequestRubrics,
             flesch |-> {FleschRaised, FleschValue(65)},
             answers |-> BOOLEAN, unexpected |-> Unexpected],
     w2 |-> [contents |-> {"one"}, students |-> {"s1"},
             assignments |-> LmsAssignments, rubrics |-> {"request"},
             flesch |-> {FleschValue(65)},
             answers |-> {TRUE}, unexpected |-> {NoRaise}]]

Next ==
    \/ Return
    \/ DbConnect
    \/ \E p \in {"none", "set"} : DeployPool(p)
    \/ \E a \in LmsAssignments, r \in ServedRubrics :
           LmsPublishAssignment(a, r)
    \/ \E st \in Students, a \in LmsAssignments, c \in ServedStored :
           LmsStoreSubmission(st, a, c)
    \/ \E w \in Workers :
           \E c \in Served[w].contents, st \in Served[w].students,
              a \in Served[w].assignments, r \in Served[w].rubrics,
              f \in Served[w].flesch :
               GradeSubmission(w, c, st, a, r, f)
    \/ \E w \in Workers :
           \E responds \in Served[w].answers,
              unexpected \in Served[w].unexpected :
               AssignmentFetched(w, responds, unexpected)
    \/ \E w \in Workers :
           \E answers \in Served[w].answers,
              unexpected \in Served[w].unexpected :
               StudentSubmissionsFetched(w, answers, unexpected)
    \/ \E w \in Workers :
           \E answers \in Served[w].answers,
              unexpected \in Served[w].unexpected :
               AssignmentSubmissionsFetched(w, answers, unexpected)
    \/ \E w \in Workers :
           \E answers \in Served[w].answers : ReportSaved(w, answers)

Spec == Init /\ [][Next]_vars

\* the check called on its own, with the pool and the submissions table:
\* texts with and without words, a text close to a stored one, a short one
\* and the absent one, for the submissions of one assignment.  The
\* deployment sets the pool once; before that every method of the service
\* fails in its own except clause, as it does on a pool of None.  The
\* first caller's lookups and save may fail and its try block may raise;
\* a second caller checks the stored text the close one is close to,
\* while the first caller's check is in flight.  The checks are made for
\* one student, the rows of the table being that student's or the
\* other's, under the id of the first row of the table or under the id
\* that follows it
SubmissionIds == {LmsIds[1], LmsIds[2]}
ReportStored == {"one", "dotted", "pair"}
ReportChecked == {"shifted", "dotted", "pair", "short15", "empty"}
ReportCallers ==
    [w1 |-> [contents |-> ReportChecked, ids |-> SubmissionIds,
             students |-> {"s1"},
             answers |-> BOOLEAN, unexpected |-> Unexpected],
     w2 |-> [contents |-> {"one"}, ids |-> {LmsIds[2]}, students |-> {"s1"},
             answers |-> {TRUE}, unexpected |-> {NoRaise}]]

NextReports ==
    \/ Return
    \/ DeployPool("set")
    \/ \E st \in Students, a \in LmsAssignments, c \in ReportStored :
           LmsStoreSubmission(st, a, c)
    \/ \E w \in Workers :
           \E c \in ReportCallers[w].contents, id \in ReportCallers[w].ids,
              st \in ReportCallers[w].students, a \in LmsAssignments,
              unexpected \in ReportCallers[w].unexpected :
               CheckPlagiarism(w, c, id, st, a, unexpected)
    \/ \E w \in Workers :
           \E answers \in ReportCallers[w].answers,
              unexpected \in ReportCallers[w].unexpected :
               StudentSubmissionsFetched(w, answers, unexpected)
    \/ \E w \in Workers :
           \E answers \in ReportCallers[w].answers,
              unexpected \in ReportCallers[w].unexpected :
               AssignmentSubmissionsFetched(w, answers, unexpected)
    \/ \E w \in Workers :
           \E answers \in ReportCallers[w].answers : ReportSaved(w, answers)

SpecReports == Init /\ [][NextReports]_vars

\* the check of a text that repeats itself or is full of formal phrases,
\* while the one text is stored, or none; a lookup or the save of the
\* first caller may fail and a statement of its try block may raise.  The
\* checks are made for one student
AloneStored == {"one"}
AloneChecked == RepeatingContents \cup {"dotted"}
AloneCallers ==
    [w1 |-> [contents |-> AloneChecked, ids |-> SubmissionIds,
             students |-> {"s1"},
             answers |-> BOOLEAN, unexpected |-> Unexpected],
     w2 |-> [contents |-> {"echo"}, ids |-> {"1"}, students |-> {"s1"},
             answers |-> {TRUE}, unexpected |-> {NoRaise}]]

NextAlone ==
    \/ Return
    \/ DeployPool("set")
    \/ \E st \in Students, a \in LmsAssignments, c \in AloneStored :
           LmsStoreSubmission(st, a, c)
    \/ \E w \in Workers :
           \E c \in AloneCallers[w].contents, id \in AloneCallers[w].ids,
              st \in AloneCallers[w].students, a \in LmsAssignments,
              unexpected \in AloneCallers[w].unexpected :
               CheckPlagiarism(w, c, id, st, a, unexpected)
    \/ \E w \in Workers :
           \E answers \in AloneCallers[w].answers,
              unexpected \in AloneCallers[w].unexpected :
               StudentSubmissionsFetched(w, answers, unexpected)
    \/ \E w \in Workers :
           \E answers \in AloneCallers[w].answers,
              unexpected \in AloneCallers[w].unexpected :
               AssignmentSubmissionsFetched(w, answers, unexpected)
    \/ \E w \in Workers :
           \E answers \in AloneCallers[w].answers : ReportSaved(w, answers)

SpecAlone == Init /\ [][NextAlone]_vars


(***************************************************************************)
(* simple_ai_system.py: the cache of SimpleAISystem, grade_assignment and  *)
(* detect_plagiarism.  A table is submissions_cache: its rows by           *)
(* content_hash, each with the columns similarity_scores and grade_result. *)
(***************************************************************************)
\* hashlib.md5(content.encode()).hexdigest(): one digest for each text
get_content_hash(content) == [md5 |-> content]

\* NULL of SQLite, and json.loads of a text json.dumps gave
Null == [null |-> TRUE]
json_loads(text) == text.json

\* get_cached_result: None, or the dict with both keys
get_cached_result(table, content) ==
    LET content_hash == get_content_hash(content)
    IN  IF content_hash \notin DOMAIN table THEN PyNone
        ELSE LET result == table[content_hash]
             IN  [plagiarism |-> IF result.similarity_scores = Null THEN PyNone
                                 ELSE json_loads(result.similarity_scores),
                  grading    |-> IF result.grade_result = Null THEN PyNone
                                 ELSE json_loads(result.grade_result)]

\* cache_result: INSERT OR REPLACE of the row; results has the key
\* plagiarism or the key grading
cache_result(table, content, results) ==
    LET content_hash == get_content_hash(content)
        row == [similarity_scores |->
                    IF "plagiarism" \in DOMAIN results
                    THEN json_dumps(results.plagiarism) ELSE Null,
                grade_result |->
                    IF "grading" \in DOMAIN results
                    THEN json_dumps(results.grading) ELSE Null]
    IN  [h \in DOMAIN table \cup {content_hash} |->
            IF h = content_hash THEN row ELSE table[h]]

\* the rubrics of SimpleAISystem in the model: criterion and weight (in
\* hundredths); FreeRubric is the free_rubric the endpoint builds from a
\* request's
FreeRubric(rubric) ==
    [k \in 1..Len(rubric) |->
        [name |-> rubric[k].name, weight |-> rubric[k].max_points.v]]

SimpleRubric ==
    [empty    |-> <<>>,
     quality  |-> <<[name |-> "content", weight |-> 30],
                    [name |-> "grammar_style", weight |-> 20]>>,
     creative |-> <<[name |-> "creativity", weight |-> 100]>>,
     request  |-> FreeRubric(Rubric["request"]),
     request1 |-> FreeRubric(Rubric["request1"])]

\* the texts SimpleAISystem is asked about: "repeats" is its own cleaned
\* text, "blank" has no word
SimpleContents == {"blank", "repeats", "one"}

Cleaned == [c \in SimpleContents |-> clean_text(Text[c])]

SimpleGrading ==
    [c \in SimpleContents |->
        [r \in DOMAIN SimpleRubric |->
            ComputeGrading(Text[c], SimpleRubric[r])]]

SimplePlagiarism ==
    [c \in SimpleContents |-> ComputePlagiarism(Cleaned[c])]

\* grade_assignment from the cache lookup on: cached_result is what
\* get_cached_result gave for the content, result what the scoring comes to
GradeAssignmentFrom(table, content, cached_result, result) ==
    IF cached_result # PyNone
    THEN [result |-> cached_result.grading, table |-> table,
          scored |-> FALSE]
    ELSE IF "error" \in DOMAIN result
    THEN [result |-> result, table |-> table, scored |-> TRUE]
    ELSE [result |-> result,
          table |-> cache_result(table, content, [grading |-> result]),
          scored |-> TRUE]

\* grade_assignment on a table: what it returns, the table after it, and
\* whether it scored (called analyze_content, evaluate_rubric, ...)
grade_assignment(table, c, rubric) ==
    GradeAssignmentFrom(table, Text[c], get_cached_result(table, Text[c]),
                        SimpleGrading[c][rubric])

\* detect_plagiarism from the cache lookup on
DetectPlagiarismFrom(table, clean_content, cached_result, result) ==
    IF cached_result # PyNone
    THEN [result |-> cached_result.plagiarism, table |-> table,
          scored |-> FALSE]
    ELSE IF "error" \in DOMAIN result
    THEN [result |-> result, table |-> table, scored |-> TRUE]
    ELSE [result |-> result,
          table |-> cache_result(table, clean_content,
                                 [plagiarism |-> result]),
          scored |-> TRUE]

\* detect_plagiarism on a table: the key is the cleaned text
detect_plagiarism(table, c) ==
    DetectPlagiarismFrom(table, Cleaned[c],
                         get_cached_result(table, Cleaned[c]),
                         SimplePlagiarism[c])

(***************************************************************************)
(* SimpleAISystem called directly and by POST /api/free/grade-submission.  *)
(* The student and the assignment a request names reach the log only.      *)
(***************************************************************************)
\* first_results after a grade_assignment call for c that returned result
Remember(c, result) ==
    IF c \in DOMAIN first_results THEN first_results
    ELSE [x \in DOMAIN first_results \cup {c} |->
            IF x = c THEN result ELSE first_results[x]]

\* simple_ai.grade_assignment(content, rubric, context)
SimpleGradeReturns(c, rubric, call) ==
    /\ cache' = call.table
    /\ first_results' = Remember(c, call.result)
    /\ last' = [op |-> "grade_assignment", content |-> c, rubric |-> rubric,
                repeated |-> c \in DOMAIN first_results,
                first |-> Remember(c, call.result)[c],
                failed |-> call.scored /\ "error" \in DOMAIN call.result,
                scored |-> call.scored, result |-> call.result]
    /\ UNCHANGED <<pool, session, assignments, submissions, reports,
                   checks, requests, tasks>>

SimpleGrade(c, rubric) ==
    /\ Idle
    /\ SimpleGradeReturns(c, rubric, grade_assignment(cache, c, rubric))

\* checks after a detect_plagiarism call for c in the name of student_id
Noted(c, assignment_id, student_id) ==
    IF c \in DOMAIN checks THEN checks
    ELSE [x \in DOMAIN checks \cup {c} |->
            IF x = c
            THEN [assignment_id |-> assignment_id, student_id |-> student_id]
            ELSE checks[x]]

\* the check made before this one of the same content, if there was one
Earlier(c) ==
    IF c \in DOMAIN checks
    THEN [made |-> TRUE, assignment_id |-> checks[c].assignment_id,
          student_id |-> checks[c].student_id]
    ELSE [made |-> FALSE, assignment_id |-> "", student_id |-> ""]

\* simple_ai.detect_plagiarism(content, assignment_id, student_id)
SimpleDetectReturns(c, assignment_id, student_id, call) ==
    /\ cache' = call.table
    /\ checks' = Noted(c, assignment_id, student_id)
    /\ last' = [op |-> "detect_plagiarism", content |-> c,
                assignment_id |-> assignment_id, student_id |-> student_id,
                earlier |-> Earlier(c),
                scored |-> call.scored, result |-> call.result]
    /\ UNCHANGED <<pool, session, assignments, submissions, reports,
                   first_results, requests, tasks>>

SimpleDetect(c, assignment_id, student_id) ==
    /\ Idle
    /\ SimpleDetectReturns(c, assignment_id, student_id,
                           detect_plagiarism(cache, c))

\* the GradingResponse of grade_submission_free, or the 500 response for
\* what was raised on the way to it
FreeResponse(grading_result, plagiarism_result) ==
    IF grading_result = PyNone
    THEN ServerError("none_is_not_subscriptable")
    ELSE IF plagiarism_result = PyNone
    THEN ServerError("plagiarism_result_is_not_a_dict")
    ELSE [status |-> 200, success |-> TRUE,
          total_score |-> grading_result.overall_score,
          criteria_scores |-> grading_result.rubric_scores,
          feedback |-> grading_result.feedback,
          plagiarism_result |-> plagiarism_result,
          confidence |-> IF "confidence" \in DOMAIN grading_result
                         THEN grading_result.confidence ELSE 70]

FreeChecked(grading, plagiarism) ==
    [grading |-> grading, table |-> plagiarism.table,
     response |-> FreeResponse(grading.result, plagiarism.result)]

FreeGraded(c, grading) ==
    FreeChecked(grading, detect_plagiarism(grading.table, c))

\* grade_submission_free: the grading, then the plagiarism check, then the
\* response
grade_submission_free(table, c, rubric) ==
    FreeGraded(c, grade_assignment(table, c, rubric))

FreeGradeSubmissionReturns(c, rubric, assignment_id, student_id, call) ==
    /\ cache' = call.table
    /\ first_results' = Remember(c, call.grading.result)
    /\ checks' = Noted(c, assignment_id, student_id)
    /\ last' = [op |-> "grade_submission_free", content |-> c,
                rubric |-> rubric,
                failed |-> call.grading.scored
                           /\ "error" \in DOMAIN call.grading.result,
                response |-> call.response]
    /\ UNCHANGED <<pool, session, assignments, submissions, reports,
                   requests, tasks>>

FreeGradeSubmission(c, rubric, assignment_id, student_id) ==
    /\ Idle
    /\ FreeGradeSubmissionReturns(c, rubric, assignment_id, student_id,
                                  grade_submission_free(cache, c, rubric))

DirectRubrics == {"empty", "quality", "creative"}

NextSimple ==
    \/ Return
    \/ \E c \in SimpleContents, r \in DirectRubrics : SimpleGrade(c, r)
    \/ \E c \in SimpleContents, a \in AssignmentIds, st \in Students :
          SimpleDetect(c, a, st)
    \/ \E c \in SimpleContents, r \in RequestRubrics, a \in AssignmentIds,
          st \in Students :
          FreeGradeSubmission(c, r, a, st)

SpecSimple == Init /\ [][NextSimple]_vars

(***************************************************************************)
(* Two requests on SimpleAISystem at the same time (two workers on the one *)
(* cache file).  Each reads the cache, scores on a miss, and writes; a     *)
(* read and a write are one SQLite statement each.                         *)
(***************************************************************************)
GradeCall(c, rubric) == [kind |-> "grade", content |-> c, rubric |-> rubric]
DetectCall(c) == [kind |-> "detect", content |-> c]

ConcurrentContents == {"repeats", "one"}
ConcurrentRubrics == {"quality", "creative"}
ConcurrentCalls ==
    {GradeCall(c, r) : c \in ConcurrentContents, r \in ConcurrentRubrics}
    \cup {DetectCall(c) : c \in ConcurrentContents}

\* the text a call hashes for its cache key
Key(call) ==
    IF call.kind = "grade" THEN Text[call.content] ELSE Cleaned[call.content]

\* the call run on its own on a table
Serve(table, call) ==
    IF call.kind = "grade"
    THEN grade_assignment(table, call.content, call.rubric)
    ELSE detect_plagiarism(table, call.content)

\* the call from its cache lookup on, on the table as it is by then
ServeFrom(table, call, cached_result) ==
    IF call.kind = "grade"
    THEN GradeAssignmentFrom(table, Text[call.content], cached_result,
                             SimpleGrading[call.content][call.rubric])
    ELSE DetectPlagiarismFrom(table, Cleaned[call.content], cached_result,
                              SimplePlagiarism[call.content])

\* the two requests come in; base is the cache they find
Arrive(call1, call2) ==
    /\ Idle
    /\ requests' = [w \in Workers |->
                       [pc |-> "arrived",
                        call |-> IF w = "w1" THEN call1 ELSE call2,
                        base |-> cache]]
    /\ UNCHANGED <<pool, session, assignments, submissions, reports,
                   cache, first_results, checks, tasks, last>>

\* get_cached_result of the request of worker w
ReadCache(w) ==
    /\ requests[w].pc = "arrived"
    /\ requests' = [requests EXCEPT ![w] =
                       [pc |-> "read", call |-> requests[w].call,
                        base |-> requests[w].base,
                        cached_result |->
                            get_cached_result(cache, Key(requests[w].call))]]
    /\ UNCHANGED <<pool, session, assignments, submissions, reports,
                   cache, first_results, checks, tasks, last>>

FinishReturns(w, out) ==
    /\ cache' = out.table
    /\ requests' = [requests EXCEPT ![w] =
                       [pc |-> "done", call |-> requests[w].call,
                        base |-> requests[w].base,
                        scored |-> out.scored, result |-> out.result]]
    /\ UNCHANGED <<pool, session, assignments, submissions, reports,
                   first_results, checks, tasks, last>>

\* the rest of the call of worker w: the cached value, or the scoring and
\* cache_result
Finish(w) ==
    /\ requests[w].pc = "read"
    /\ FinishReturns(w, ServeFrom(cache, requests[w].call,
                                  requests[w].cached_result))

BothDone == \A w \in Workers : requests[w].pc = "done"

\* both callers take their results
Deliver ==
    /\ BothDone
    /\ requests' = [w \in Workers |-> IdleRequest]
    /\ UNCHANGED <<pool, session, assignments, submissions, reports,
                   cache, first_results, checks, tasks, last>>

NextConcurrent ==
    \/ \E call1 \in ConcurrentCalls, call2 \in ConcurrentCalls :
          Arrive(call1, call2)
    \/ \E w \in Workers : ReadCache(w)
    \/ \E w \in Workers : Finish(w)
    \/ Deliver

SpecConcurrent == Init /\ [][NextConcurrent]_vars

(***************************************************************************)
(* The scorers and measures called on their own: a call is drawn, then     *)
(* made.  Texts are runs of up to MaxTokens tokens, and the texts graded.  *)
(***************************************************************************)
MaxTokens == 4
MaxPairTokens == 3
MaxMinWords == 12
MaxWordCount == 210

Tokens ==
    {Capitalized(w_the), w_the, w_is, w_graded, <<".">>, <<" ">>}

TokenTexts ==
    {Flatten(q) : q \in UNION {[1..n -> Tokens] : n \in 0..MaxTokens}}

ScoredTexts == TokenTexts \cup {Text[c] : c \in Contents}

\* the texts compared with each other: of up to MaxPairTokens tokens, the
\* empty text and the text of blanks among them
PairTokens == {Capitalized(w_the), w_the, w_essay, <<" ">>}

PairedTexts ==
    {Flatten(q) : q \in UNION {[1..n -> PairTokens] : n \in 0..MaxPairTokens}}

\* min_words as a rubric gives it, the default of 100 among them
MinWords == 1..MaxMinWords \cup {100}

\* the criterion names dispatched: up to MaxNameParts parts joined by "_",
\* each a keyword of the chain, in lower case or capitalized, or a word
\* that is none
MaxNameParts == 2

NameParts ==
    {p_content, p_thesis, p_grammar, p_style, p_language, p_structure,
     p_organization, p_argument, p_analysis, p_critical, n_creativity,
     Capitalized(p_content), Capitalized(p_style)}

CriterionNames ==
    {JoinWith(q, <<"_">>) :
        q \in UNION {[1..n -> NameParts] : n \in 0..MaxNameParts}}

PureCalls ==
    {[op |-> "call_grammar", text |-> t] : t \in ScoredTexts}
    \cup {[op |-> "call_dispatch", criterion_name |-> n] :
             n \in CriterionNames}
    \cup {[op |-> "call_jaccard", text1 |-> a, text2 |-> b] :
             a \in PairedTexts, b \in PairedTexts}
    \cup {[op |-> "call_length", word_count |-> w, min_words |-> m] :
             w \in 0..MaxWordCount, m \in MinWords}

InitPure ==
    /\ pool = "absent"
    /\ session = FALSE
    /\ assignments = [a \in AssignmentIds |-> "absent"]
    /\ submissions = <<>>
    /\ reports = <<>>
    /\ cache = <<>>
    /\ first_results = <<>>
    /\ checks = <<>>
    /\ requests = [w \in Workers |-> IdleRequest]
    /\ tasks = NoTasks
    /\ last \in PureCalls

GrammarScored ==
    /\ last.op = "call_grammar"
    /\ last' = [op |-> "calculate_grammar_score",
                text |-> last.text,
                result |-> calculate_grammar_score(last.text)]
    /\ UNCHANGED <<pool, session, assignments, submissions, reports,
                   cache, first_results, checks, requests, tasks>>

\* the coefficient of the two texts, taken in both orders
JaccardCompared ==
    /\ last.op = "call_jaccard"
    /\ last' = [op |-> "calculate_jaccard_similarity",
                text1 |-> last.text1,
                text2 |-> last.text2,
                forward  |-> calculate_jaccard_similarity(last.text1,
                                                          last.text2),
                backward |-> calculate_jaccard_similarity(last.text2,
                                                          last.text1)]
    /\ UNCHANGED <<pool, session, assignments, submissions, reports,
                   cache, first_results, checks, requests, tasks>>

\* the length score of a text of word_count words, and of one a word longer
LengthScored ==
    /\ last.op = "call_length"
    /\ last' = [op |-> "length_score",
                word_count |-> last.word_count,
                min_words |-> last.min_words,
                score |-> length_score(last.word_count, last.min_words),
                longer |-> length_score(last.word_count + 1, last.min_words)]
    /\ UNCHANGED <<pool, session, assignments, submissions, reports,
                   cache, first_results, checks, requests, tasks>>

\* the branch the loop of grade_essay_with_database takes for the name
Dispatched ==
    /\ last.op = "call_dispatch"
    /\ last' = [op |-> "dispatch",
                criterion_name |-> last.criterion_name,
                branch |-> Strategy(last.criterion_name)]
    /\ UNCHANGED <<pool, session, assignments, submissions, reports,
                   cache, first_results, checks, requests, tasks>>

NextPure ==
    \/ GrammarScored
    \/ JaccardCompared
    \/ LengthScored
    \/ Dispatched

SpecPure == InitPure /\ [][NextPure]_vars

(***************************************************************************)
(* enhanced_services/free_llm_system.py, free_assignment_grader.py and     *)
(* free_plagiarism_detector.py: FreeLLMAcademicSystem with its cache and   *)
(* the grader and the detector built on it.  ai_cache.db is held in cache, *)
(* one function from content_hash to row for each of its three tables.     *)
(* What the models and textstat give is the environment's.                 *)
(***************************************************************************)
FreeTables ==
    [embeddings_cache |-> <<>>, plagiarism_cache |-> <<>>,
     grading_cache |-> <<>>]

\* FreeLLMAcademicSystem.get_cached_result: None, or the dict built for the
\* table from the row's columns
FreeLLM_get_cached_result(db, table, content_hash) ==
    IF content_hash \notin DOMAIN db[table] THEN PyNone
    ELSE LET result == db[table][content_hash]
         IN  CASE table = "embeddings_cache" ->
                    [embedding |-> json_loads(result.embedding)]
               [] table = "plagiarism_cache" ->
                    [similarity_scores |-> json_loads(result.similarity_scores),
                     matches |-> json_loads(result.matches)]
               [] table = "grading_cache" ->
                    [grade_result |-> json_loads(result.grade_result),
                     feedback |-> result.feedback]

\* the columns FreeLLMAcademicSystem.cache_result writes for the table
FreeLLM_row(table, data) ==
    CASE table = "embeddings_cache" ->
            [embedding |-> json_dumps(data.embedding)]
      [] table = "plagiarism_cache" ->
            [similarity_scores |-> json_dumps(data.similarity_scores),
             matches |-> json_dumps(data.matches)]
      [] table = "grading_cache" ->
            [grade_result |-> json_dumps(data.grade_result),
             feedback |-> data.feedback]

\* FreeLLMAcademicSystem.cache_result: INSERT OR REPLACE of the row
FreeLLM_cache_result(db, table, content_hash, data) ==
    LET rows == db[table]
        put  == [h \in DOMAIN rows \cup {content_hash} |->
                    IF h = content_hash THEN FreeLLM_row(table, data)
                    ELSE rows[h]]
    IN  [db EXCEPT ![table] = put]

\* the texts FreeAssignmentGrader and FreePlagiarismDetector are asked about
FreeContents == {"one", "essay"}

\* fallback_criterion_scoring
fallback_criterion_scoring(word_count) ==
    IF word_count < 50 THEN 40
    ELSE IF word_count < 100 THEN 60
    ELSE IF word_count < 200 THEN 70
    ELSE IF word_count < 500 THEN 80
    ELSE 85

label_to_score ==
    [excellent |-> 90, good |-> 80, satisfactory |-> 70,
     needs_improvement |-> 60, poor |-> 50]

\* what a pipeline or textstat gave: an exception, or its answer (scores
\* in hundredths)
Raised == [raised |-> TRUE]
Classified(label, score) == [raised |-> FALSE, label |-> label, score |-> score]
Readable(flesch_score, grade_level) == [raised |-> FALSE, flesch_score |-> flesch_score, grade_level |-> grade_level]
Generated(text) == [raised |-> FALSE, generated_text |-> text]

\* FreeAssignmentGrader.evaluate_criterion: weight in hundredths, confidence
\* in thousandths
free_evaluate_criterion(word_count, entry, classification) ==
    [criterion  |-> entry.name,
     weight     |-> entry.weight,
     score      |-> IF classification.raised
                    THEN fallback_criterion_scoring(word_count)
                    ELSE label_to_score[classification.label],
     confidence |-> IF classification.raised THEN 700
                    ELSE 10 * classification.score]

\* evaluate_rubric_compliance: the criteria of the rubric in its order
evaluate_rubric_compliance(word_count, rubric, classifications) ==
    [k \in 1..Len(rubric) |->
        free_evaluate_criterion(word_count, rubric[k], classifications[k])]

\* FreeAssignmentGrader.calculate_overall_score:
\* int(total_weighted_score / total_weight) of the two floats the loop adds
\* up, the weight of a score being the float hundredths / 100.0
free_calculate_overall_score(rubric_scores) ==
    LET weight == [k \in 1..Len(rubric_scores) |->
                      FLit(rubric_scores[k].weight, 100)]
        total_weighted_score ==
            FSum([k \in 1..Len(rubric_scores) |->
                     FMul(FInt(rubric_scores[k].score), weight[k])])
        total_weight == FSum(weight)
    IN  IF FCmp(total_weight, FZero) > 0
        THEN FTrunc(FDiv(total_weighted_score, total_weight))
        ELSE 70

\* FreeAssignmentGrader.calculate_confidence: the float
\* sum(confidences) / len(confidences), 0.7 without scores; the confidence
\* of a score is the float thousandths / 1000
free_calculate_confidence(rubric_scores) ==
    IF rubric_scores = <<>> THEN Tenths[7]
    ELSE FDiv(FSum([k \in 1..Len(rubric_scores) |->
                       FLit(rubric_scores[k].confidence, 1000)]),
              FInt(Len(rubric_scores)))

\* re.sub(r'<[^>]+>', '', s) from position i on: each leftmost "<" that is
\* followed by a character other than ">" and later by a ">" goes with
\* all up to that ">"
RECURSIVE StripTagsFrom(_, _)
StripTagsFrom(s, i) ==
    LET opens == {k \in i..Len(s) - 2 :
                     /\ s[k] = "<"
                     /\ s[k + 1] # ">"
                     /\ \E j \in k + 2..Len(s) : s[j] = ">"}
    IN  IF opens = {} THEN SubSeq(s, i, Len(s))
        ELSE LET k == SetMin(opens)
                 j == SetMin({x \in k + 2..Len(s) : s[x] = ">"})
             IN  SubSeq(s, i, k - 1) \o StripTagsFrom(s, j + 1)

KeepWorking ==
    <<" ","K","e","e","p"," ","w","o","r","k","i","n","g"," ","o","n"," ",
      "i","m","p","r","o","v","i","n","g"," ","y","o","u","r"," ",
      "w","r","i","t","i","n","g"," ","s","k","i","l","l","s","!">>

\* clean_feedback
clean_feedback(feedback) ==
    LET cleaned == Strip(CollapseBlanks(StripTagsFrom(feedback, 1)))
    IN  IF Len(cleaned) < 50 THEN cleaned \o KeepWorking
        ELSE IF Len(cleaned) > 500
        THEN SubSeq(cleaned, 1, 500) \o <<".", ".", ".">>
        ELSE cleaned

\* generate_fallback_feedback: its sentences, which " ".join puts together
generate_fallback_feedback(overall_score, rubric_scores) ==
    LET overall == IF overall_score >= 90 THEN "excellent_work"
                   ELSE IF overall_score >= 80 THEN "good_work"
                   ELSE IF overall_score >= 70 THEN "satisfactory_work"
                   ELSE IF overall_score >= 60 THEN "needs_improvement"
                   ELSE "significant_improvement_needed"
        low     == SelectSeq(rubric_scores, LAMBDA sd : sd.score < 70)
    IN  <<[sentence |-> overall]>>
            \o [k \in 1..Len(low) |->
                  [sentence |-> "focus_on_improving",
                   criterion |-> low[k].criterion]]

\* FreeAssignmentGrader.generate_feedback: text_generator's text after the
\* prompt, cleaned, or the fallback feedback
free_generate_feedback(rubric_scores, generation) ==
    IF generation.raised
    THEN [fallback |-> generate_fallback_feedback(
                           free_calculate_overall_score(rubric_scores),
                           rubric_scores)]
    ELSE [generated |-> clean_feedback(Strip(generation.generated_text))]

\* FreeAssignmentGrader.analyze_content_quality
free_analyze_content_quality(content, env) ==
    LET word_count     == SplitLen(content, 1, Len(content))
        sentence_count == SplitPieceCount(content)
    IN  [readability |->
            IF env.textstat.raised
            THEN [word_count |-> word_count,
                  sentence_count |-> sentence_count]
            ELSE [flesch_score |-> env.textstat.flesch_score,
                  grade_level |-> env.textstat.grade_level,
                  word_count |-> word_count,
                  sentence_count |-> sentence_count],
         sentiment |->
            IF env.sentiment.raised THEN [label |-> "neutral", score |-> 50]
            ELSE [label |-> env.sentiment.label,
                  score |-> env.sentiment.score],
         classification |->
            IF env.classification.raised
            THEN [type |-> "academic", confidence |-> 50]
            ELSE [type |-> env.classification.label,
                  confidence |-> env.classification.score]]

\* what text_generator may give: tags, runs of blanks, a short and a long
\* text
GeneratedText ==
    [short |-> <<" ", "<", "b", ">">> \o w_ok \o <<" ", " ", "<", ">">>
                 \o w_ok \o <<"<", "/", "b", ">", " ">>,
     long  |-> Text["longs"]]

\* what the pipelines and textstat do in one call of grade_assignment:
\* nothing is loaded; all is loaded; textstat fails and the text generated
\* is long.  classifier is asked once for each criterion.
FreeEnv ==
    [unloaded |->
        [textstat |-> Raised, sentiment |-> Raised, classification |-> Raised,
         classifier |-> <<Raised, Raised>>, text_generator |-> Raised],
     loaded |->
        [textstat |-> Readable(65, 8),
         sentiment |-> Classified("positive", 90),
         classification |-> Classified("academic", 80),
         classifier |-> <<Classified("excellent", 90), Classified("poor", 50)>>,
         text_generator |-> Generated(GeneratedText["short"])],
     wordy |->
        [textstat |-> Raised,
         sentiment |-> Classified("negative", 60),
         classification |-> Classified("informal", 40),
         classifier |-> <<Classified("good", 80), Raised>>,
         text_generator |-> Generated(GeneratedText["long"])]]

\* the result grade_assignment computes when the cache has none
FreeGradeResult(content, rubric, env) ==
    LET word_count    == SplitLen(content, 1, Len(content))
        rubric_scores == evaluate_rubric_compliance(word_count, rubric,
                                                    env.classifier)
    IN  [overall_score    |-> free_calculate_overall_score(rubric_scores),
         rubric_scores    |-> rubric_scores,
         feedback         |-> free_generate_feedback(rubric_scores,
                                                     env.text_generator),
         content_analysis |-> free_analyze_content_quality(content, env),
         confidence       |-> free_calculate_confidence(rubric_scores),
         grading_method   |-> "free_llm_analysis"]

\* the results on the texts of the model, computed once
FreeGrading ==
    [c \in FreeContents |->
        [r \in DirectRubrics |->
            [e \in DOMAIN FreeEnv |->
                FreeGradeResult(Text[c], SimpleRubric[r], FreeEnv[e])]]]

\* FreeAssignmentGrader.grade_assignment: what is cached for the content, or
\* the result computed, which is cached
FreeGraderOutcome(db, content_hash, cached_result, result) ==
    IF cached_result # PyNone
    THEN [db |-> db, hit |-> TRUE, result |-> cached_result]
    ELSE [db |-> FreeLLM_cache_result(db, "grading_cache", content_hash,
                    [grade_result |-> result, feedback |-> result.feedback]),
          hit |-> FALSE, result |-> result]

free_grade_assignment(db, c, rubric, e) ==
    FreeGraderOutcome(db, get_content_hash(c),
        FreeLLM_get_cached_result(db, "grading_cache", get_content_hash(c)),
        FreeGrading[c][rubric][e])

\* FreePlagiarismDetector.get_content_embedding: the embedding cached, or
\* the one the embedding model gives, which is cached, or the TF-IDF one
\* when the model raised
EmbeddingOutcome(db, c, content_hash, cached_result, encoded) ==
    IF cached_result # PyNone
    THEN [db |-> db, embedding |-> cached_result.embedding]
    ELSE IF encoded
    THEN [db |-> FreeLLM_cache_result(db, "embeddings_cache", content_hash,
                    [embedding |-> [encode |-> c]]),
          embedding |-> [encode |-> c]]
    ELSE [db |-> db, embedding |-> [tfidf |-> c]]

get_content_embedding(db, c, encoded) ==
    EmbeddingOutcome(db, c, get_content_hash(c),
        FreeLLM_get_cached_result(db, "embeddings_cache", get_content_hash(c)),
        encoded)

\* find_similar_submissions: no submission, whatever is asked
find_similar_submissions(embedding, assignment_id, current_student_id) == <<>>

\* the result detect_plagiarism computes from the submissions found, none
\* of which there is
FreeDetection(similar_submissions) ==
    [similarity_scores  |-> similar_submissions,
     matches            |-> similar_submissions,
     highest_similarity |-> 0,
     is_flagged         |-> Len(similar_submissions) > 0,
     detection_method   |-> "free_llm_embedding"]

\* FreePlagiarismDetector.detect_plagiarism
FreeDetectorOutcome(db, content_hash, cached_result, embedded, result) ==
    IF cached_result # PyNone
    THEN [db |-> db, hit |-> TRUE, result |-> cached_result]
    ELSE [db |-> FreeLLM_cache_result(embedded.db, "plagiarism_cache",
                                      content_hash, result),
          hit |-> FALSE, result |-> result]

FreeDetectorFound(db, c, assignment_id, student_id, embedded) ==
    FreeDetectorOutcome(db, get_content_hash(c),
        FreeLLM_get_cached_result(db, "plagiarism_cache", get_content_hash(c)),
        embedded,
        FreeDetection(find_similar_submissions(embedded.embedding,
                                               assignment_id, student_id)))

free_detect_plagiarism(db, c, assignment_id, student_id, encoded) ==
    FreeDetectorFound(db, c, assignment_id, student_id,
                      get_content_embedding(db, c, encoded))

InitFree ==
    /\ pool = "absent"
    /\ session = FALSE
    /\ assignments = [a \in AssignmentIds |-> "absent"]
    /\ submissions = <<>>
    /\ reports = <<>>
    /\ cache = FreeTables
    /\ first_results = <<>>
    /\ checks = <<>>
    /\ requests = [w \in Workers |-> IdleRequest]
    /\ tasks = NoTasks
    /\ last = [op |-> "none"]

\* first_results after a call: what the call that found no row for the
\* table and the content returned
Populated(table, c, call) ==
    IF call.hit THEN first_results
    ELSE [x \in DOMAIN first_results \cup {<<table, c>>} |->
            IF x = <<table, c>> THEN call.result ELSE first_results[x]]

\* grader.grade_assignment(content, rubric, assignment_context)
FreeGraderReturns(c, rubric, call) ==
    /\ cache' = call.db
    /\ first_results' = Populated("grading_cache", c, call)
    /\ last' = [op |-> "free_grade_assignment", content |-> c,
                rubric |-> rubric, hit |-> call.hit,
                populating |-> Populated("grading_cache", c, call)[<<"grading_cache", c>>],
                result |-> call.result]
    /\ UNCHANGED <<pool, session, assignments, submissions, reports,
                   checks, requests, tasks>>

FreeGraderGrade(c, rubric, e) ==
    /\ Idle
    /\ FreeGraderReturns(c, rubric, free_grade_assignment(cache, c, rubric, e))

\* detector.detect_plagiarism(content, assignment_id, student_id)
FreeDetectorReturns(c, assignment_id, student_id, call) ==
    /\ cache' = call.db
    /\ first_results' = Populated("plagiarism_cache", c, call)
    /\ last' = [op |-> "free_detect_plagiarism", content |-> c,
                assignment_id |-> assignment_id, student_id |-> student_id,
                hit |-> call.hit,
                populating |-> Populated("plagiarism_cache", c, call)[<<"plagiarism_cache", c>>],
                result |-> call.result]
    /\ UNCHANGED <<pool, session, assignments, submissions, reports,
                   checks, requests, tasks>>

FreeDetectorDetect(c, assignment_id, student_id, encoded) ==
    /\ Idle
    /\ FreeDetectorReturns(c, assignment_id, student_id,
           free_detect_plagiarism(cache, c, assignment_id, student_id, encoded))

NextFree ==
    \/ Return
    \/ \E c \in FreeContents, r \in DirectRubrics, e \in DOMAIN FreeEnv :
          FreeGraderGrade(c, r, e)
    \/ \E c \in FreeContents, a \in AssignmentIds, st \in Students,
          encoded \in BOOLEAN :
          FreeDetectorDetect(c, a, st, encoded)

SpecFree == InitFree /\ [][NextFree]_vars

(***************************************************************************)
(* Properties of grade_essay_with_database, on SpecGrade.                  *)
(***************************************************************************)
Graded == last.op = "grade_essay" /\ ~last.result.raised

\* C4: for all content and all rubrics, the total_score returned by
\* grade_essay_with_database satisfies 0 <= total_score <= 100 (hundredths
\* here).
C4_TotalScoreInRange ==
    Graded => last.result.total_score \in 0..10000

\* a grading of a rubric of several criteria that came out above 80
C4_Witness ==
    /\ Graded
    /\ Len(last.result.criteria_scores) >= 2
    /\ last.result.total_score >= 8000

ScoredNames(result) ==
    {result.criteria_scores[k].name : k \in 1..Len(result.criteria_scores)}

\* C5: a criterion whose scorer raises is skipped entirely: it has no entry
\* in criteria_scores, the criteria that did not raise all have one, and
\* total_score is 100 x (sum of the scores of the criteria that succeeded)
\* / (sum of their max_points), up to the rounding of the reported numbers,
\* or 0 when none succeeded.
C5_RaisingCriterionSkipped ==
    Graded =>
        LET result    == last.result
            cs        == result.criteria_scores
            entries   == Rubric[last.scored_rubric]
            names     == {entries[k].name : k \in 1..Len(entries)}
            sum_score == SumSeq([k \in 1..Len(cs) |-> cs[k].score])
            sum_max   == SumSeq([k \in 1..Len(cs) |-> cs[k].max_score])
            gap       == result.total_score * sum_max - 100 * sum_score
        IN  /\ \A n \in last.skipped : n \notin ScoredNames(result)
            /\ \A n \in names \ last.skipped : n \in ScoredNames(result)
            /\ Len(cs) = Cardinality(names \ last.skipped)
            /\ IF cs = <<>> THEN result.total_score = 0
               ELSE /\ 2 * gap <= sum_max + 100 * Len(cs)
                    /\ 2 * gap >= 0 - (sum_max + 100 * Len(cs))

\* a grading in which one criterion raised and another was scored
C5_Witness ==
    /\ Graded
    /\ last.skipped # {}
    /\ last.result.criteria_scores # <<>>
    /\ last.result.total_score > 0

\* C6: grading content shorter than the minimum analyzable length returns
\* a default with a zero score and does not raise.
C6_ShortContentGetsDefault ==
    (last.op = "grade_essay"
        /\ Len(Text[last.content]) < MinAnalyzableLength)
    => (~last.result.raised /\ last.result.total_score = 0)

\* C7: the content is scored against the rubric the caller handed in, and
\* the call fails when the referenced assignment is absent.
C7_CallerRubricScored ==
    last.op = "grade_essay" =>
        IF last.found
        THEN ~last.result.raised /\ last.scored_rubric = last.rubric
        ELSE last.result.raised


(***************************************************************************)
(* Properties of check_plagiarism_with_database and of the endpoint that   *)
(* calls it, on Spec and SpecReports.                                      *)
(***************************************************************************)
\* the call of check_plagiarism_with_database that has just returned
Checked ==
    \/ last.op = "check_plagiarism"
    \/ last.op = "grade_submission" /\ last.checked

\* C3: in no run of the plagiarism check is the content compared with the
\* stored record of the submission under check, in either pass.
C3_NeverComparedWithItself ==
    Checked =>
        (last.call.self_compared \cup last.call.cross_compared)
            \cap last.own = {}

\* the try block of the call came to its report and returned it
ReachedReport(call) == call.looked_up # {} /\ ~call.raised

\* an error while comparing (the except clause ran) or while saving (the
\* report was not stored)
ErrorInCheck ==
    \/ last.call.result = ErrorReport
    \/ ReachedReport(last.call) /\ ~last.call.saved

\* C8: when an error occurs inside the plagiarism check, the grade-submission
\* response does not carry a "not suspicious" report under success = true.
C8_FailureIsReported ==
    (last.op = "grade_submission" /\ last.checked /\ ErrorInCheck)
    => ~(/\ last.response.status = 200
         /\ last.response.success
         /\ ~last.response.plagiarism_result.is_suspicious)

\* C9: when a lookup of a comparison set fails, the check completes with an
\* empty set for it and reports a confidence strictly lower than the report
\* of the same check on lookups that succeed with these sets.
C9_FailedLookupLowersConfidence ==
    (/\ last.op = "check_plagiarism"
     /\ ReachedReport(last.call)
     /\ last.call.student_lookup_failed \/ last.call.assignment_lookup_failed)
    => /\ last.call.student_lookup_failed
            => last.call.student_submissions = <<>>
       /\ last.call.assignment_lookup_failed
            => last.call.assignment_submissions = <<>>
       /\ last.call.result.confidence
            < PlagiarismReport(last.content, last.submission_id,
                               last.call.student_submissions,
                               last.call.assignment_submissions).confidence


(***************************************************************************)
(* Properties of SimpleAISystem and the free endpoint, on SpecSimple.      *)
(***************************************************************************)
\* a score generate_feedback words as a pass: satisfactory or better
Passing(score) == OverallBand(score) \in {"excellent", "good", "satisfactory"}

\* C1: when the grading fails inside, the caller gets an explicit error
\* state and never a passing score made up for the occasion: the result of
\* grade_assignment carries the error and no passing score, and the free
\* endpoint does not answer success with a passing total_score
C1_FailedGradingIsExplicit ==
    /\ (last.op = "grade_assignment" /\ last.failed)
           => /\ "error" \in DOMAIN last.result
              /\ ~Passing(last.result.overall_score)
    /\ (last.op = "grade_submission_free" /\ last.failed)
           => ~(/\ last.response.status = 200
                /\ last.response.success
                /\ Passing(last.response.total_score))

\* C2: a second grade_assignment call for a content returns what the first
\* call for that content returned and scores nothing, whatever was graded
\* or checked in between
C2_SecondCallIsCached ==
    (last.op = "grade_assignment" /\ last.repeated)
        => /\ last.result = last.first
           /\ ~last.scored


(***************************************************************************)
(* Property of two concurrent requests, on SpecConcurrent.                 *)
(***************************************************************************)
\* the two requests are on the same content: the same grade_assignment
\* call twice, or a grade_assignment and a detect_plagiarism call with
\* the same key
SameContent(call1, call2) ==
    /\ Key(call1) = Key(call2)
    /\ \/ call1.kind # call2.kind
       \/ call1.kind = "grade" /\ call1 = call2

\* the cache after the first call and then the second, one after the other
Sequential(base, first, second) ==
    Serve(Serve(base, first).table, second).table

\* table holds, under the key, every result that stored holds under it
HoldsEvery(table, stored, key) ==
    get_content_hash(key) \in DOMAIN stored
        => /\ get_content_hash(key) \in DOMAIN table
           /\ \A column \in {"similarity_scores", "grade_result"} :
                 stored[get_content_hash(key)][column] # Null
                    => table[get_content_hash(key)][column]
                          = stored[get_content_hash(key)][column]

\* C10: after two concurrent requests on the same content, in whatever
\* order their reads and writes fell, each caller has the result it would
\* have got alone, and the cache entry holds every result that the two
\* requests run one after the other (in one of the two orders) would have
\* stored
C10_AtomicPerKey ==
    (BothDone /\ SameContent(requests["w1"].call, requests["w2"].call))
        => /\ \A w \in Workers :
                 requests[w].result
                     = Serve(requests[w].base, requests[w].call).result
           /\ \E w \in Workers, v \in Workers :
                 /\ w # v
                 /\ HoldsEvery(cache,
                               Sequential(requests[w].base, requests[w].call,
                                          requests[v].call),
                               Key(requests[w].call))

(***************************************************************************)
(* Further properties of grade_essay_with_database, on SpecGrade.          *)
(***************************************************************************)
\* a grading of a rubric of one criterion, which was scored
OneCriterion ==
    /\ Graded
    /\ Len(Rubric[last.scored_rubric]) = 1
    /\ Len(last.result.criteria_scores) = 1

\* C13 as stated: with one criterion in the rubric, and that one scored,
\* total_score equals the criterion's percentage in criteria_scores
C13_TotalIsThePercentage ==
    OneCriterion
        => last.result.total_score
               = 10 * last.result.criteria_scores[1].percentage

\* C13 up to the rounding: total_score is rounded to two places and the
\* percentage to one, so they are within 0.05 of each other, and equal
\* where the score has no second decimal place
C13_TotalRoundsToThePercentage ==
    OneCriterion
        => LET total      == last.result.total_score
               percentage == 10 * last.result.criteria_scores[1].percentage
           IN  /\ total - percentage \in -5..5
               /\ (total % 10 = 0) => total = percentage

\* a one-criterion grading whose score has a second decimal place
C13_Witness ==
    /\ OneCriterion
    /\ last.result.total_score % 10 # 0
    /\ last.result.criteria_scores[1].max_score # 100

\* the rubric graded asks for structure, as a dictionary with points to
\* earn
StructureAsked ==
    /\ Graded
    /\ \E k \in 1..Len(Rubric[last.scored_rubric]) :
          LET entry == Rubric[last.scored_rubric][k]
          IN  /\ entry.name = "structure"
              /\ entry.kind = "dict"
              /\ entry.max_points.tag = "int"
              /\ entry.max_points.v > 0

\* C14: the structure score is in [0, 100] for every input, and input
\* without paragraphs or without sentences gets a structure score of zero
\* rather than an error
C14_StructureScoreForEveryInput ==
    StructureAsked
        => \E j \in 1..Len(last.result.criteria_scores) :
              LET scored == last.result.criteria_scores[j]
              IN  /\ scored.name = "structure"
                  /\ scored.percentage \in 0..1000
                  /\ Metrics[last.content].structure.empty
                         => scored.score = 0

(***************************************************************************)
(* Properties of the check and its report store, on SpecReports.           *)
(***************************************************************************)
\* a check that went through the comparisons to a report of its own
Recomputed == last.op = "check_plagiarism" /\ ReachedReport(last.call)

\* C11: after a plagiarism check the store holds, for the id checked, one
\* report, and it is the one the most recent recomputation for the id
\* produced: the report of this check, which has not replaced the report
\* of a check that recomputed it later
C11_StoreHoldsLatest ==
    Recomputed
        => /\ last.submission_id \in DOMAIN reports
           /\ reports[last.submission_id] = ReportRow(last.call.result)
           /\ ~last.call.overtaken

\* the rows of the second pass that hold the text under check, handed in
\* by another student
IdenticalOthers ==
    LET rows == CrossCompared(last.submission_id, last.call.assignment_submissions)
    IN  {k \in 1..Len(rows) : /\ rows[k].student_id # last.student_id
                              /\ rows[k].content = last.content}

\* the second pass on a row whose text is the text under check
IdenticalMatch == CrossMatch(last.content, [content |-> last.content])

\* a check that went into its try block with, among the rows of its second
\* pass, the text under check handed in by another student
MetIdentical ==
    /\ last.op = "check_plagiarism"
    /\ last.call.looked_up # {}
    /\ IdenticalOthers # {}

\* C12 as stated: when the second pass meets the same text handed in by
\* another student for the same assignment, its weighted similarity is
\* above 40, the report names a matched source and is suspicious
C12_IdenticalTextIsFlagged ==
    MetIdentical
        => /\ FCmp(IdenticalMatch.score, FInt(40)) > 0
           /\ last.call.result.matched_sources # <<>>
           /\ last.call.result.is_suspicious

\* the words of the text under check
CheckedWords == FindWords(Text[last.content])

\* C12: the weighted similarity of the identical row is 100 and a
\* paraphrase for a text of three words or more, 70 and no paraphrase for
\* a text of one or two words, and 40 for a text without a word, which is
\* not above 40 and names no source.  The report of the try block is
\* suspicious in each case and names a source where the text has a word;
\* when a statement of the try block raises the report is that of the
\* except clause, which names no source and is not suspicious
C12_IdenticalWordsAreFlagged ==
    MetIdentical
        => /\ IdenticalMatch.flagged
           /\ IF Len(CheckedWords) >= 3
              THEN /\ IdenticalMatch.paraphrase
                   /\ FCmp(IdenticalMatch.score, FInt(100)) = 0
                   /\ IdenticalMatch.source # <<>>
              ELSE IF Len(CheckedWords) >= 1
              THEN /\ ~IdenticalMatch.paraphrase
                   /\ FCmp(IdenticalMatch.score, FInt(70)) = 0
                   /\ IdenticalMatch.source # <<>>
              ELSE /\ ~IdenticalMatch.paraphrase
                   /\ FCmp(IdenticalMatch.score, FInt(40)) = 0
                   /\ IdenticalMatch.source = <<>>
           /\ IF last.call.raised
              THEN last.call.result = ErrorReport
              ELSE /\ last.call.result.is_suspicious
                   /\ CheckedWords # <<>>
                         => last.call.result.matched_sources # <<>>

\* a check has met the text it checks, of two words, under another
\* student's name, and has reported it
C12_Witness ==
    /\ MetIdentical
    /\ ~last.call.raised
    /\ Len(CheckedWords) = 2
    /\ last.call.result.is_suspicious

\* a check of content that is absent or under 20 characters once trimmed
ShortChecked == last.op = "check_plagiarism" /\ TooShort(last.content)

\* C15: check_plagiarism_with_database called with absent content or content
\* under 20 characters after trimming returns the default report
\* (similarity_score 0, not suspicious, no segments, no sources, confidence
\* 0, analysis 'Content too short for analysis') without raising, makes no
\* submission lookup and writes no plagiarism report
C15_ShortContentLeavesAllAlone ==
    ShortChecked
        => /\ last.call.result
                = [similarity_score |-> 0, is_suspicious |-> FALSE,
                   suspicious_segments |-> <<>>, matched_sources |-> <<>>,
                   confidence |-> 0,
                   analysis |-> <<"content_too_short">>]
           /\ last.call.looked_up = {}
           /\ ~last.call.saved
           /\ reports = last.before

\* a short check for an id whose earlier report is still in the store,
\* with submissions there to look up
C15_Witness ==
    /\ ShortChecked
    /\ last.submission_id \in DOMAIN reports
    /\ submissions # <<>>
    /\ pool = "set"

(***************************************************************************)
(* Properties of the scorers and measures, on SpecPure.                    *)
(***************************************************************************)
\* C16: the grammar score is never negative and never above 90, whatever
\* deductions apply (hundredths here)
C16_GrammarScoreInRange ==
    last.op = "calculate_grammar_score" => last.result.score \in 0..9000

\* a text on which four deductions or more meet
C16_Witness ==
    /\ last.op = "calculate_grammar_score"
    /\ Len(last.result.feedback) >= 4
    /\ last.result.score <= 5000

\* C17: for min_words > 0 and word_count >= 0 the length score is below 0.5
\* when word_count < min_words, does not fall when a word is added, on a
\* piece of the curve or across two, and is within [0, 1]
C17_LengthScoreCurve ==
    last.op = "length_score"
        => /\ ~last.score.raised
           /\ FCmp(last.score.value, FZero) >= 0
           /\ FCmp(last.score.value, FInt(1)) <= 0
           /\ last.word_count < last.min_words
                  => FCmp(last.score.value, Tenths[5]) < 0
           /\ FCmp(last.score.value, last.longer.value) <= 0

\* the score at word_count = min_words - 1, = min_words, and at the last
\* count under 1.5 x min_words, where the next count is on the next piece
C17_Witness ==
    /\ last.op = "length_score"
    /\ last.min_words = 100
    /\ last.word_count \in {99, 100, 149}
    /\ FCmp(last.score.value, last.longer.value) < 0

\* C18: jaccard_similarity(a, b) = jaccard_similarity(b, a) for all texts,
\* and both are 0 where a text has no word
C18_JaccardSymmetric ==
    last.op = "calculate_jaccard_similarity"
        => /\ last.forward.intersection * last.backward.union
                = last.backward.intersection * last.forward.union
           /\ (FindWords(last.text1) = <<>> \/ FindWords(last.text2) = <<>>)
                  => /\ last.forward.intersection = 0
                     /\ last.backward.intersection = 0

\* two texts that share a word and differ in their number of words
C18_Witness ==
    /\ last.op = "calculate_jaccard_similarity"
    /\ last.forward.intersection > 0
    /\ Len(FindWords(last.text1)) # Len(FindWords(last.text2))
    /\ last.forward.intersection < last.forward.union

(***************************************************************************)
(* Properties of SimpleAISystem's plagiarism check and cache, on           *)
(* SpecSimple.                                                             *)
(***************************************************************************)
\* a check of a text that another student had checked before for the same
\* assignment
CheckedAfterAnother ==
    /\ last.op = "detect_plagiarism"
    /\ last.earlier.made
    /\ last.earlier.student_id # last.student_id
    /\ last.earlier.assignment_id = last.assignment_id

\* C19: detect_plagiarism compares against prior submissions: once one
\* student's text has been checked, the check of the same text handed in by
\* another student for the same assignment returns is_flagged true and
\* matches that are not empty
C19_SecondStudentIsFlagged ==
    CheckedAfterAnother
        => /\ last.result # PyNone
           /\ "matches" \in DOMAIN last.result
           /\ last.result.matches # <<>>
           /\ last.result.is_flagged

\* the cache key of the call that has returned
KeyOfLast ==
    get_content_hash(IF last.op = "detect_plagiarism"
                     THEN Cleaned[last.content] ELSE Text[last.content])

\* what a call of SimpleAISystem may do to the cache and return: the column
\* of the other kind stays as it was in every row, a hit returns what the
\* row held for the kind asked, and None is not returned
KindsKeptApart ==
    /\ last'.op = "grade_assignment"
           => /\ \A h \in DOMAIN cache :
                     cache'[h].similarity_scores = cache[h].similarity_scores
              /\ ~last'.scored
                     => /\ KeyOfLast' \in DOMAIN cache
                        /\ cache[KeyOfLast'].grade_result # Null
                        /\ last'.result
                             = json_loads(cache[KeyOfLast'].grade_result)
    /\ last'.op = "detect_plagiarism"
           => /\ \A h \in DOMAIN cache :
                     cache'[h].grade_result = cache[h].grade_result
              /\ ~last'.scored
                     => /\ KeyOfLast' \in DOMAIN cache
                        /\ cache[KeyOfLast'].similarity_scores # Null
                        /\ last'.result
                             = json_loads(cache[KeyOfLast'].similarity_scores)
    /\ last'.op \in {"grade_assignment", "detect_plagiarism"}
           => last'.result # PyNone

\* C20: in SimpleAISystem, storing one kind of result under a hash leaves
\* the other kind under that hash unchanged, a cache hit returns only a
\* value stored before for the kind asked, and no call returns null
C20_KindsKeptApart == [][KindsKeptApart]_vars

\* C21: the result grade_assignment returns for a content and a rubric is
\* the result a fresh computation for that content and rubric gives, after
\* whatever calls came before; a result cached for the content under
\* another rubric is not returned
C21_CachedGradeIsOfThisRubric ==
    last.op = "grade_assignment"
        => last.result = SimpleGrading[last.content][last.rubric]

(***************************************************************************)
(* Properties of FreeAssignmentGrader and FreePlagiarismDetector, on       *)
(* SpecFree.                                                               *)
(***************************************************************************)
GradingFields == {"overall_score", "rubric_scores", "feedback", "confidence"}
PlagiarismFields == {"similarity_scores", "matches", "highest_similarity", "is_flagged"}

SameIn(fields, a, b) ==
    \A f \in fields :
        /\ f \in DOMAIN a
        /\ f \in DOMAIN b
        /\ a[f] = b[f]

\* C22: what grade_assignment and detect_plagiarism of the free grader and
\* detector return on a cache hit has the fields of the result the
\* populating call returned, with the same values: overall_score,
\* rubric_scores, feedback and confidence for a grading, similarity_scores,
\* matches, highest_similarity and is_flagged for a plagiarism check
C22_HitReturnsWhatWasComputed ==
    /\ (last.op = "free_grade_assignment" /\ last.hit)
          => SameIn(GradingFields, last.result, last.populating)
    /\ (last.op = "free_detect_plagiarism" /\ last.hit)
          => SameIn(PlagiarismFields, last.result, last.populating)

(***************************************************************************)
(* Properties of the two passes and of the report, on SpecReports.         *)
(***************************************************************************)
\* a check that returned the report of its try block
Compared == last.op = "check_plagiarism" /\ ReachedReport(last.call)

FirstPass == SelfCompared(last.submission_id, last.call.student_submissions)
SecondPass == CrossCompared(last.submission_id, last.call.assignment_submissions)

\* the rows of the first and of the second pass that the check came to
\* and flagged
FirstHits == SelectSeq(FirstPass, LAMBDA s : s.id \in last.call.self_compared /\ SelfMatch(last.content, s).flagged)
SecondHits == SelectSeq(SecondPass, LAMBDA s : s.id \in last.call.cross_compared /\ CrossMatch(last.content, s).flagged)

\* C23: in one plagiarism check a stored submission gives at most one
\* value to similarity_scores: none is flagged in the self-plagiarism pass
\* and again in the cross-student pass
C23_EachSubmissionCountedOnce ==
    Compared =>
        \A i \in 1..Len(FirstHits), j \in 1..Len(SecondHits) :
            FirstHits[i].id # SecondHits[j].id

\* the comparisons of the two passes that were flagged
FlaggedComparisons == Len(FirstHits) + Len(SecondHits)

SecondSources == SelectSeq(SecondHits, LAMBDA s : CrossMatch(last.content, s).paraphrase \/ FCmp(CrossMatch(last.content, s).score, FInt(40)) > 0)

\* the entries of matched_sources, counted on the rows of the two passes
SourceCount == Len(FirstHits) + Len(SecondSources)

RepetitionFallback ==
    [c \in ComparedContents |->
        FRoundTo(FMin(Patterns[c].repetition, FInt(15)), 100)]

\* C26: when neither pass has a submission to compare with, similarity_score
\* is the repetition fallback and at most 15, and is_suspicious is true
\* exactly when more than 5 sentences are pattern-flagged
C26_AloneIsJudgedByPatterns ==
    (Compared /\ FirstPass = <<>> /\ SecondPass = <<>>) =>
        /\ last.call.result.similarity_score = RepetitionFallback[last.content]
        /\ last.call.result.similarity_score <= 1500
        /\ last.call.result.is_suspicious
             <=> Len(Patterns[last.content].segments) > 5

\* a check with nothing to compare with of a text of six pattern-flagged
\* sentences, which is suspicious
C26_Witness ==
    /\ Compared
    /\ FirstPass = <<>>
    /\ SecondPass = <<>>
    /\ Len(Patterns[last.content].segments) = 6
    /\ last.call.result.is_suspicious

\* the runs of four words of the text under check
FourGrams == get_ngrams(Text[last.content], 4)

\* C27: when no comparison is flagged, similarity_score is
\* min((1 - unique_4grams / total_4grams) x 30, 15), and it is 0 for a text
\* with no repeated run of four words, a text of fewer than four words
\* among them
C27_FallbackIsRepetition ==
    (Compared /\ FlaggedComparisons = 0) =>
        LET total  == Len(FourGrams)
            unique == Cardinality(Range(FourGrams))
        IN  last.call.result.similarity_score
              = IF unique = total THEN 0
                ELSE Min2(RoundDiv((total - unique) * 3000, total), 1500)

(***************************************************************************)
(* Properties of the dispatch on the criterion name, on SpecPure.          *)
(***************************************************************************)
\* the categories in their order of priority, each with its keywords
Categories ==
    <<[scorer |-> "content", keywords |-> {p_content, p_thesis}],
      [scorer |-> "grammar", keywords |-> {p_grammar, p_style, p_language}],
      [scorer |-> "structure", keywords |-> {p_structure, p_organization}],
      [scorer |-> "argument",
       keywords |-> {p_argument, p_analysis, p_critical}]>>

\* the categories one of whose keywords is in the name, whatever its case
Matching(criterion_name) ==
    {k \in 1..Len(Categories) :
        \E p \in Categories[k].keywords :
            Contains(StrLower(criterion_name), p)}

\* the scorer a branch of the chain calls: the last branch scores the
\* content as the first does
ScorerOf(branch) == IF branch = "other" THEN "content" ELSE branch

\* C28: the scorer chosen for a criterion name is that of the first
\* category, in the order content, grammar, structure, argument, with a
\* keyword that is a case-insensitive substring of the name, and content
\* scoring when there is none
C28_FirstCategoryWins ==
    last.op = "dispatch" =>
        ScorerOf(last.branch)
            = IF Matching(last.criterion_name) = {} THEN "content"
              ELSE Categories[SetMin(Matching(last.criterion_name))].scorer

\* a capitalized name with keywords of two categories, the later one first
C28_Witness ==
    /\ last.op = "dispatch"
    /\ Matching(last.criterion_name) = {1, 2}
    /\ Contains(last.criterion_name, Capitalized(p_style))
    /\ last.branch = "content"

(***************************************************************************)
(* Properties of the criteria scored and of the lists of the result, on    *)
(* SpecGrade.                                                              *)
(***************************************************************************)
\* the entries of the scored rubric that are dicts with max_points > 0,
\* min_words >= 0 and a name the chain sends to content scoring
ContentCriteria ==
    {k \in 1..Len(Rubric[last.scored_rubric]) :
        LET entry == Rubric[last.scored_rubric][k]
        IN  /\ entry.kind = "dict"
            /\ entry.max_points.tag = "int"
            /\ entry.max_points.v > 0
            /\ entry.min_words.tag = "int"
            /\ entry.min_words.v >= 0
            /\ StrategyOf[entry.name] \in {"content", "other"}}

\* C29: a criterion with max_points > 0 and min_words >= 0, min_words = 0
\* included, that content scoring scores is not skipped: it is among the
\* criteria_scores of the result
C29_ContentCriterionIsScored ==
    Graded =>
        \A k \in ContentCriteria :
            LET entry == Rubric[last.scored_rubric][k]
            IN  /\ entry.name \notin last.skipped
                /\ \E j \in 1..Len(last.result.criteria_scores) :
                      last.result.criteria_scores[j].name = entry.name

\* C30 as stated: both lists hold at most five entries, strengths is not
\* empty where total_score is 70 or more, and improvements is not empty
\* where total_score is under 95
C30_ListsNeverEmptyByTotalScore ==
    Graded =>
        /\ Len(last.result.strengths) <= 5
        /\ Len(last.result.improvements) <= 5
        /\ (last.result.total_score >= 7000 => last.result.strengths # <<>>)
        /\ (last.result.total_score < 9500
               => last.result.improvements # <<>>)

\* C30, amended: both lists hold at most five entries, strengths is not
\* empty where total_score is over 70 (the score before rounding is then
\* 70 or more), and improvements is not empty where total_score is under 95
C30_ListsNeverEmptyByFinalScore ==
    Graded =>
        /\ Len(last.result.strengths) <= 5
        /\ Len(last.result.improvements) <= 5
        /\ (last.result.total_score > 7000 => last.result.strengths # <<>>)
        /\ (last.result.total_score < 9500
               => last.result.improvements # <<>>)

\* a grading of six weak criteria, of which the result keeps five
C30_Witness ==
    /\ Graded
    /\ Len(Rubric[last.scored_rubric]) = 6
    /\ last.skipped = {}
    /\ Len(last.result.improvements) = 5
    /\ last.result.strengths = <<>>

====
